---- MODULE Spec2Model ----
(***************************************************************************)
(* Model of the Small-World FSM demo: the generic FSM engine (fsm.c), the  *)
(* Player table (player.cpp), the two NPC tables (npc.cpp with a Shield    *)
(* state, npc.c with four directional Moving states), the animation player *)
(* (animation.c) and the command mediator (mediator.cpp).                  *)
(*                                                                         *)
(* Conventions.                                                            *)
(*  - Enum values are strings carrying the source's names.                 *)
(*  - A function pointer is the name of the function, or NULL.             *)
(*  - Times are integer tenths of a second (0.1f = 1, 0.2f = 2).           *)
(*  - Every operator that models a C function takes the entity record and  *)
(*    returns the entity record after the call.  The values a call obtains *)
(*    from the environment are passed in the record io:                    *)
(*       io.ft  = the value GetFrameTime() returns,                        *)
(*       io.rnd = the value rand() % 7 + 1 takes.                          *)
(*  - obj.calls is an instrumentation log of the callbacks and FSM calls   *)
(*    made during the last operation on the entity (the code prints a line *)
(*    for most of them); each entry records currentState/previousState as  *)
(*    they were when the call was made.                                    *)
(***************************************************************************)
EXTENDS Integers, Sequences, FiniteSets, TLC

(* player, npc, mediator: the members of GameData.                        *)
(* build: the NPC source that is linked.                                  *)
(* underTest: the entity the operations are issued on.                    *)
(* lastCall: the last operation issued, with its argument and result.     *)
(* stepsLeft: the number of operations that may still be issued.          *)
(* progress: how many operations of LifeCycle the operations issued so    *)
(*   far have followed, or -1 once they departed from it.                 *)
(* ticks: a summary of the UpdateAnimation calls made on the animation of *)
(*   the entity under test since its InitAnimation (kept by the           *)
(*   animation operations only).                                          *)
(* clock: the value GetTime() returns, in tenths of a second.             *)
(* lastAITime: the static variable of UpdateGame.                         *)
VARIABLES player, npc, mediator, build, underTest, lastCall, stepsLeft,
          progress, ticks, clock, lastAITime

vars ==
    <<player, npc, mediator, build, underTest, lastCall, stepsLeft, progress,
      ticks, clock, lastAITime>>

NULL == "NULL"

(* A wild (uninitialised, non-null) function pointer. *)
WILD == "WILD"

---------------------------------------------------------------------------
(* Bounds of the model *)

(* Largest frame time GetFrameTime() returns, in tenths of a second. *)
MaxFrameTime == 1

(* Largest outcome of rand() % 7 + 1 the environment is let to produce. *)
MaxRoll == 1

(* Largest number of operations issued on the entity after InitGame. *)
MaxSteps == 3

(* Largest number of operations issued on the mediator. *)
MaxCommands == 2

(* Largest offset, along each axis, at which the player is placed from    *)
(* the NPC for the collision functions.                                    *)
MaxGap == 19

(* Largest frame time, in tenths of a second, of one UpdateAnimation call *)
(* when the animation is driven on its own, short of a single call that   *)
(* takes all of MaxElapsed.                                                *)
MaxTick == 3

(* Largest number of UpdateGame frames run. *)
MaxFrames == 2

(* Largest total of the frame times of the UpdateAnimation calls made on  *)
(* one animation since its InitAnimation, in tenths of a second.          *)
MaxElapsed == 12

(* The UpdateState calls of a run of the idling Player: enough for the    *)
(* idle animation, of 8 frames of 2 tenths each, to come to its last      *)
(* frame.                                                                  *)
MaxIdleTicks == 16

(* Largest frameCount of the animations given to InitAnimation when the   *)
(* frame index is followed call by call.                                   *)
MaxCount == 3

(* The frame arrays of one entity that are allocated and not freed are   *)
(* counted up to MaxArrays.                                                *)
MaxArrays == 2

(* The number of frames for which the move-up key is held down. *)
MaxSiege == 42

(* The longest component of a direction vector handed to a movement     *)
(* helper.                                                                 *)
MaxStride == 1

FrameTimes == 0..MaxFrameTime

---------------------------------------------------------------------------
(* Enumerations *)

STATE_IDLE == "STATE_IDLE"
STATE_WALKING == "STATE_WALKING"
STATE_ATTACKING == "STATE_ATTACKING"
STATE_SHIELD == "STATE_SHIELD"
STATE_DEAD == "STATE_DEAD"
STATE_RESPAWN == "STATE_RESPAWN"
STATE_COLLISION == "STATE_COLLISION"
STATE_COUNT == "STATE_COUNT"

(* The states of fsm.h, in enum order. *)
StateSeq ==
    <<STATE_IDLE, STATE_WALKING, STATE_ATTACKING, STATE_SHIELD,
      STATE_DEAD, STATE_RESPAWN, STATE_COLLISION>>

State == {StateSeq[i] : i \in 1..Len(StateSeq)}

(* The directional states npc.c uses on top of those of fsm.h. *)
STATE_MOVING_UP == "STATE_MOVING_UP"
STATE_MOVING_DOWN == "STATE_MOVING_DOWN"
STATE_MOVING_LEFT == "STATE_MOVING_LEFT"
STATE_MOVING_RIGHT == "STATE_MOVING_RIGHT"

MovingState ==
    {STATE_MOVING_UP, STATE_MOVING_DOWN, STATE_MOVING_LEFT, STATE_MOVING_RIGHT}

EVENT_NONE == "EVENT_NONE"
EVENT_MOVE == "EVENT_MOVE"
EVENT_ATTACK == "EVENT_ATTACK"
EVENT_DEFEND == "EVENT_DEFEND"
EVENT_DIE == "EVENT_DIE"
EVENT_RESPAWN == "EVENT_RESPAWN"
EVENT_COLLISION_START == "EVENT_COLLISION_START"
EVENT_COLLISION_END == "EVENT_COLLISION_END"
EVENT_COUNT == "EVENT_COUNT"

Event ==
    {EVENT_NONE, EVENT_MOVE, EVENT_ATTACK, EVENT_DEFEND, EVENT_DIE,
     EVENT_RESPAWN, EVENT_COLLISION_START, EVENT_COLLISION_END, EVENT_COUNT}

(* The events npc.c uses on top of those of events.h. *)
EVENT_MOVE_UP == "EVENT_MOVE_UP"
EVENT_MOVE_DOWN == "EVENT_MOVE_DOWN"
EVENT_MOVE_LEFT == "EVENT_MOVE_LEFT"
EVENT_MOVE_RIGHT == "EVENT_MOVE_RIGHT"
EVENT_ROLL == "EVENT_ROLL"

DirEvent ==
    {EVENT_MOVE_UP, EVENT_MOVE_DOWN, EVENT_MOVE_LEFT, EVENT_MOVE_RIGHT,
     EVENT_ROLL}

COMMAND_MOVE_UP == "COMMAND_MOVE_UP"
COMMAND_MOVE_UP_RIGHT == "COMMAND_MOVE_UP_RIGHT"
COMMAND_MOVE_UP_LEFT == "COMMAND_MOVE_UP_LEFT"
COMMAND_MOVE_DOWN == "COMMAND_MOVE_DOWN"
COMMAND_MOVE_DOWN_LEFT == "COMMAND_MOVE_DOWN_LEFT"
COMMAND_MOVE_DOWN_RIGHT == "COMMAND_MOVE_DOWN_RIGHT"
COMMAND_MOVE_LEFT == "COMMAND_MOVE_LEFT"
COMMAND_MOVE_RIGHT == "COMMAND_MOVE_RIGHT"
COMMAND_ATTACK == "COMMAND_ATTACK"
COMMAND_COLLISION_START == "COMMAND_COLLISION_START"
COMMAND_COLLISION_END == "COMMAND_COLLISION_END"
COMMAND_NONE == "COMMAND_NONE"
COMMAND_COUNT == "COMMAND_COUNT"

Command ==
    {COMMAND_MOVE_UP, COMMAND_MOVE_UP_RIGHT, COMMAND_MOVE_UP_LEFT,
     COMMAND_MOVE_DOWN, COMMAND_MOVE_DOWN_LEFT, COMMAND_MOVE_DOWN_RIGHT,
     COMMAND_MOVE_LEFT, COMMAND_MOVE_RIGHT, COMMAND_ATTACK,
     COMMAND_COLLISION_START, COMMAND_COLLISION_END, COMMAND_NONE,
     COMMAND_COUNT}

(* The two NPC sources of the repository. *)
NPC_CPP == "npc.cpp"
NPC_C == "npc.c"

Build == {NPC_CPP, NPC_C}

---------------------------------------------------------------------------
(* Screen (main.cpp) *)

screenWidth == 800
screenHeight == 600

---------------------------------------------------------------------------
(* Instrumentation *)

Log(obj, call, arg) ==
    [obj EXCEPT !.calls =
        Append(@, [call |-> call, arg |-> arg,
                   cur |-> obj.currentState, prev |-> obj.previousState])]

(* The entity at the start of an operation: an empty call log. *)
Fresh(obj) == [obj EXCEPT !.calls = <<>>]

(* No UpdateAnimation call made yet: the number of calls, the sum of      *)
(* their frame times, the number of calls that changed currentFrame, and  *)
(* the frame time all calls had in common (0 before the first call, -1    *)
(* once two calls differed).                                               *)
NoTicks == [n |-> 0, elapsed |-> 0, advances |-> 0, each |-> 0]

(* The entries of the call log that are calls of kind call. *)
CallsOf(obj, call) == SelectSeq(obj.calls, LAMBDA c : c.call = call)

---------------------------------------------------------------------------
(* animation.c *)

(* Variant of InitAnimation with the defect that it keeps the frame      *)
(* index of the animation it replaces.                                     *)
InitAnimationKeepsFrame(animationData, frames, frameCount, frameDuration, loop) ==
    [frames |-> frames,
     frameCount |-> frameCount,
     frameDuration |-> frameDuration,
     loop |-> loop,
     currentFrame |-> animationData.currentFrame,
     frameTimer |-> 0,
     active |-> TRUE]

InitAnimation(animationData, frames, frameCount, frameDuration, loop) ==
    [frames |-> frames,
     frameCount |-> frameCount,
     frameDuration |-> frameDuration,
     loop |-> loop,
     currentFrame |-> 0,
     frameTimer |-> 0,
     active |-> TRUE]

(* Variant of UpdateAnimation with the defect that the frame timer is    *)
(* not reset when the frame advances.                                      *)
UpdateAnimationTimerKept(animationData, ft) ==
    IF ~animationData.active
    THEN animationData
    ELSE LET timer == animationData.frameTimer + ft
             next == animationData.currentFrame + 1
         IN  IF timer >= animationData.frameDuration
             THEN [animationData EXCEPT
                      !.currentFrame =
                          IF next >= animationData.frameCount
                          THEN IF animationData.loop
                               THEN 0
                               ELSE animationData.frameCount - 1
                          ELSE next,
                      !.frameTimer = timer]
             ELSE [animationData EXCEPT !.frameTimer = timer]

(* Variant of UpdateAnimation with the defect that a non-looping          *)
(* animation restarts at the first frame as a looping one does.           *)
UpdateAnimationAlwaysWraps(animationData, ft) ==
    IF ~animationData.active
    THEN animationData
    ELSE LET timer == animationData.frameTimer + ft
             next == animationData.currentFrame + 1
         IN  IF timer >= animationData.frameDuration
             THEN [animationData EXCEPT
                      !.currentFrame =
                          IF next >= animationData.frameCount THEN 0 ELSE next,
                      !.frameTimer = 0]
             ELSE [animationData EXCEPT !.frameTimer = timer]

(* Variant of UpdateAnimation with the defect that an animation that does *)
(* not loop is not held on its last frame.                                 *)
UpdateAnimationUnclamped(animationData, ft) ==
    IF ~animationData.active
    THEN animationData
    ELSE LET timer == animationData.frameTimer + ft
             next == animationData.currentFrame + 1
         IN  IF timer >= animationData.frameDuration
             THEN [animationData EXCEPT
                      !.currentFrame =
                          IF next >= animationData.frameCount
                             /\ animationData.loop
                          THEN 0
                          ELSE next,
                      !.frameTimer = 0]
             ELSE [animationData EXCEPT !.frameTimer = timer]

UpdateAnimation(animationData, ft) ==
    IF ~animationData.active
    THEN animationData
    ELSE LET timer == animationData.frameTimer + ft
             next == animationData.currentFrame + 1
         IN  IF timer >= animationData.frameDuration
             THEN [animationData EXCEPT
                      !.currentFrame =
                          IF next >= animationData.frameCount
                          THEN IF animationData.loop
                               THEN 0
                               ELSE animationData.frameCount - 1
                          ELSE next,
                      !.frameTimer = 0]
             ELSE [animationData EXCEPT !.frameTimer = timer]

---------------------------------------------------------------------------
(* gameobject.cpp *)

(* The animation member before any InitGameObjectAnimation: zero-filled   *)
(* memory, or garbage that happens to be an active animation.             *)
UninitAnimation ==
    {[frames |-> NULL, frameCount |-> 0, frameDuration |-> 0, loop |-> FALSE,
      currentFrame |-> 0, frameTimer |-> 0, active |-> FALSE],
     [frames |-> WILD, frameCount |-> 3, frameDuration |-> 1, loop |-> FALSE,
      currentFrame |-> 1, frameTimer |-> 0, active |-> TRUE]}

(* Variant of InitGameObject with the defect that previousState starts   *)
(* as the initial state.                                                   *)
InitGameObjectPreviousIsCurrent(name, position, velocity, currentState, color, collider, health, animation) ==
    [name |-> name,
     position |-> position,
     velocity |-> velocity,
     currentState |-> currentState,
     previousState |-> currentState,
     color |-> color,
     collider |-> collider,
     health |-> health,
     stateConfigs |-> <<>>,
     animation |-> animation,
     crashed |-> FALSE,
     calls |-> <<>>,
     frameArrays |-> 0]

InitGameObject(name, position, velocity, currentState, color, collider, health, animation) ==
    [name |-> name,
     position |-> position,
     velocity |-> velocity,
     currentState |-> currentState,
     previousState |-> STATE_COUNT,
     color |-> color,
     collider |-> collider,
     health |-> health,
     stateConfigs |-> <<>>,
     animation |-> animation,
     crashed |-> FALSE,
     calls |-> <<>>,
     frameArrays |-> 0]

(* An entity with one more frame array on the heap: the malloc of        *)
(* InitAnimation. No function of the program frees a frame array.         *)
Malloced(obj) ==
    [obj EXCEPT !.frameArrays = IF @ < MaxArrays THEN @ + 1 ELSE @]

(* The local AnimationData that InitAnimation fills is copied over        *)
(* obj->animation, frames pointer included; InitAnimation has allocated    *)
(* one more frame array.                                                   *)
InitGameObjectAnimation(obj, frames, frameCount, speed) ==
    [obj EXCEPT !.frameArrays = IF @ < MaxArrays THEN @ + 1 ELSE @,
                !.animation = InitAnimation(@, frames, frameCount, speed,
                                            TRUE)]

---------------------------------------------------------------------------
(* fsm.c : tables *)

EMPTY_STATE_CONFIG ==
    [name |-> NULL, HandleEvent |-> NULL, Entry |-> NULL, Update |-> NULL,
     Exit |-> NULL, nextStates |-> <<>>, nextStatesCount |-> 0]

(* A table slot that no statement of the initialiser writes: malloc'ed    *)
(* memory that is zero-filled, or garbage with wild function pointers.    *)
GARBAGE_STATE_CONFIG ==
    [name |-> WILD, HandleEvent |-> WILD, Entry |-> WILD, Update |-> WILD,
     Exit |-> WILD, nextStates |-> <<>>, nextStatesCount |-> 0]

(* Garbage whose name member happens to point at readable bytes.          *)
GARBAGE_NAMED_STATE_CONFIG == [GARBAGE_STATE_CONFIG EXCEPT !.name = "garbage"]

UninitStateConfig ==
    {EMPTY_STATE_CONFIG, GARBAGE_STATE_CONFIG, GARBAGE_NAMED_STATE_CONFIG}

(* Variant of StateTransitions with the defect that the last transition   *)
(* is not copied.                                                          *)
StateTransitionsDropLast(stateConfig, transitions, stateCount) ==
    [stateConfig EXCEPT
        !.nextStates = SubSeq(transitions, 1, stateCount - 1),
        !.nextStatesCount = stateCount - 1]

StateTransitions(stateConfig, transitions, stateCount) ==
    [stateConfig EXCEPT
        !.nextStates = SubSeq(transitions, 1, stateCount),
        !.nextStatesCount = stateCount]

(* Variant of Configure with the defect that StateTransitions is not      *)
(* called.                                                                 *)
ConfigureNoTransitions(name, handleEvent, entry, update, exit, transitions) ==
    [name |-> name, HandleEvent |-> handleEvent, Entry |-> entry,
     Update |-> update, Exit |-> exit,
     nextStates |-> <<>>, nextStatesCount |-> 0]

(* The five assignments and the StateTransitions call that configure one  *)
(* state in InitPlayerFSM / InitNPCFSM.                                    *)
Configure(name, handleEvent, entry, update, exit, transitions) ==
    StateTransitions(
        [name |-> name, HandleEvent |-> handleEvent, Entry |-> entry,
         Update |-> update, Exit |-> exit,
         nextStates |-> <<>>, nextStatesCount |-> 0],
        transitions, Len(transitions))

---------------------------------------------------------------------------
(* player.cpp : Entry and Exit callbacks *)

IdleFrames == <<"idle1", "idle2", "idle3", "idle4", "idle5", "idle6", "idle7">>

(* rand() % 7 + 1 *)
RandomChoice == 1..7

SelectRandomIdleAnimation(obj, io) ==
    LET randomChoice == io.rnd
    IN  InitGameObjectAnimation(obj,
            IdleFrames[IF randomChoice \in 1..7 THEN randomChoice ELSE 1],
            8, 2)

PlayerEnterIdle(obj, io) ==
    IF obj.previousState # obj.currentState /\ obj.currentState = STATE_IDLE
    THEN SelectRandomIdleAnimation(obj, io)
    ELSE obj

PlayerExitIdle(obj, io) == obj

PlayerEnterWalking(obj, io) == InitGameObjectAnimation(obj, "walk", 9, 1)

PlayerExitWalking(obj, io) == obj

PlayerEnterAttacking(obj, io) == InitGameObjectAnimation(obj, "attacking", 6, 1)

PlayerExitAttacking(obj, io) == obj

PlayerEnterShielding(obj, io) == obj

PlayerExitShielding(obj, io) == obj

PlayerEnterDie(obj, io) == obj

PlayerExitDie(obj, io) == obj

PlayerEnterRespawn(obj, io) == obj

PlayerExitRespawn(obj, io) == obj

---------------------------------------------------------------------------
(* npc.cpp and npc.c : Entry and Exit callbacks.  NPCEnterIdle,           *)
(* NPCExitIdle, NPCEnterAttacking, NPCExitAttacking, NPCEnterDead and     *)
(* NPCExitDead have the same body in both files.                          *)

NPCEnterIdle(obj, io) ==
    IF obj.previousState # obj.currentState /\ obj.currentState = STATE_IDLE
    THEN InitGameObjectAnimation(obj, "idle", 6, 2)
    ELSE obj

NPCExitIdle(obj, io) == obj

NPCEnterAttacking(obj, io) == InitGameObjectAnimation(obj, "attacking", 6, 2)

NPCExitAttacking(obj, io) ==
    [obj EXCEPT !.animation = UpdateAnimation(obj.animation, io.ft)]

NPCEnterShielding(obj, io) == InitGameObjectAnimation(obj, "sheilding", 6, 2)

NPCExitShielding(obj, io) == obj

NPCEnterDead(obj, io) == InitGameObjectAnimation(obj, "dead", 6, 2)

NPCExitDead(obj, io) == obj

(* npc.c only *)
NPCEnterMovingUp(obj, io) ==
    [InitGameObjectAnimation(obj, "walkUp", 9, 1) EXCEPT
        !.velocity = [x |-> 0, y |-> -1]]

NPCExitMovingUp(obj, io) == obj

NPCEnterMovingDown(obj, io) ==
    [InitGameObjectAnimation(obj, "walkDown", 9, 1) EXCEPT
        !.velocity = [x |-> 0, y |-> 1]]

NPCExitMovingDown(obj, io) == obj

NPCEnterMovingLeft(obj, io) ==
    [InitGameObjectAnimation(obj, "walkLeft", 9, 1) EXCEPT
        !.velocity = [x |-> -1, y |-> 0]]

NPCExitMovingLeft(obj, io) == obj

NPCEnterMovingRight(obj, io) ==
    [InitGameObjectAnimation(obj, "walkRight", 9, 1) EXCEPT
        !.velocity = [x |-> 1, y |-> 0]]

NPCExitMovingRight(obj, io) == obj

---------------------------------------------------------------------------
(* fsm.c : the engine *)

(* A call through a wild pointer: the process dies. *)
Crash(obj) == [obj EXCEPT !.crashed = TRUE]

(* The call newConfig->Entry(obj) or currentConfig->Exit(obj): a call     *)
(* through the function pointer fn.                                        *)
CallEntryExit(fn, obj, io) ==
    CASE fn = "PlayerEnterIdle" -> PlayerEnterIdle(obj, io)
      [] fn = "PlayerExitIdle" -> PlayerExitIdle(obj, io)
      [] fn = "PlayerEnterWalking" -> PlayerEnterWalking(obj, io)
      [] fn = "PlayerExitWalking" -> PlayerExitWalking(obj, io)
      [] fn = "PlayerEnterAttacking" -> PlayerEnterAttacking(obj, io)
      [] fn = "PlayerExitAttacking" -> PlayerExitAttacking(obj, io)
      [] fn = "PlayerEnterShielding" -> PlayerEnterShielding(obj, io)
      [] fn = "PlayerExitShielding" -> PlayerExitShielding(obj, io)
      [] fn = "PlayerEnterDie" -> PlayerEnterDie(obj, io)
      [] fn = "PlayerExitDie" -> PlayerExitDie(obj, io)
      [] fn = "PlayerEnterRespawn" -> PlayerEnterRespawn(obj, io)
      [] fn = "PlayerExitRespawn" -> PlayerExitRespawn(obj, io)
      [] fn = "NPCEnterIdle" -> NPCEnterIdle(obj, io)
      [] fn = "NPCExitIdle" -> NPCExitIdle(obj, io)
      [] fn = "NPCEnterAttacking" -> NPCEnterAttacking(obj, io)
      [] fn = "NPCExitAttacking" -> NPCExitAttacking(obj, io)
      [] fn = "NPCEnterShielding" -> NPCEnterShielding(obj, io)
      [] fn = "NPCExitShielding" -> NPCExitShielding(obj, io)
      [] fn = "NPCEnterDead" -> NPCEnterDead(obj, io)
      [] fn = "NPCExitDead" -> NPCExitDead(obj, io)
      [] fn = "NPCEnterMovingUp" -> NPCEnterMovingUp(obj, io)
      [] fn = "NPCExitMovingUp" -> NPCExitMovingUp(obj, io)
      [] fn = "NPCEnterMovingDown" -> NPCEnterMovingDown(obj, io)
      [] fn = "NPCExitMovingDown" -> NPCExitMovingDown(obj, io)
      [] fn = "NPCEnterMovingLeft" -> NPCEnterMovingLeft(obj, io)
      [] fn = "NPCExitMovingLeft" -> NPCExitMovingLeft(obj, io)
      [] fn = "NPCEnterMovingRight" -> NPCEnterMovingRight(obj, io)
      [] fn = "NPCExitMovingRight" -> NPCExitMovingRight(obj, io)
      [] OTHER -> Crash(obj)

(* The loop of CanEnterState from index i on (0-based, as in the source). *)
RECURSIVE CanEnterStateFrom(_, _, _)
CanEnterStateFrom(currentConfig, newState, i) ==
    IF i < currentConfig.nextStatesCount
    THEN IF currentConfig.nextStates[i + 1] = newState
         THEN TRUE
         ELSE CanEnterStateFrom(currentConfig, newState, i + 1)
    ELSE FALSE

(* Variant of CanEnterState with the defect that the loop stops one entry *)
(* early.                                                                  *)
CanEnterStateOffByOne(obj, newState) ==
    LET currentConfig == obj.stateConfigs[obj.currentState]
    IN  \E i \in 1..(currentConfig.nextStatesCount - 1) :
            currentConfig.nextStates[i] = newState

(* Variant of CanEnterState with the defect that the whitelist is not     *)
(* consulted.                                                              *)
CanEnterStateAlways(obj, newState) == TRUE

(* Variant of CanEnterState with the defect that the current state is     *)
(* always accepted as the new state.                                       *)
CanEnterStateOrStay(obj, newState) ==
    \/ newState = obj.currentState
    \/ CanEnterStateFrom(obj.stateConfigs[obj.currentState], newState, 0)

CanEnterState(obj, newState) ==
    CanEnterStateFrom(obj.stateConfigs[obj.currentState], newState, 0)

(* ChangeState returns a bool and changes obj; ChangeState is the entity  *)
(* after the call and ChangeStateResult the value returned.               *)
ChangeStateResult(obj, newState) == CanEnterState(obj, newState)

(* printf with a %s conversion for each of the pointers in names: a null  *)
(* pointer prints as "(null)", a wild pointer is read as a string.        *)
Printf(obj, names) == IF WILD \in names THEN Crash(obj) ELSE obj

(* Variant of Transition with the defect that Entry is called before the  *)
(* fields are switched.                                                    *)
TransitionEntryBeforeSwitch(obj, newState, io) ==
    LET currentConfig == obj.stateConfigs[obj.currentState]
        newConfig == obj.stateConfigs[newState]
        called == Log(obj, "ChangeState", newState)
        exited ==
            IF currentConfig.Exit # NULL
            THEN CallEntryExit(currentConfig.Exit,
                               Log(called, "Exit", obj.currentState), io)
            ELSE called
        entered ==
            IF newConfig.Entry # NULL
            THEN CallEntryExit(newConfig.Entry,
                               Log(exited, "Entry", newState), io)
            ELSE exited
    IN  [entered EXCEPT !.previousState = exited.currentState,
                        !.currentState = newState]

(* The part of ChangeState that performs a valid transition. *)
Transition(obj, newState, io) ==
    LET currentConfig == obj.stateConfigs[obj.currentState]
        newConfig == obj.stateConfigs[newState]
        called == Log(obj, "ChangeState", newState)
        exited ==
            IF currentConfig.Exit # NULL
            THEN CallEntryExit(currentConfig.Exit,
                               Log(called, "Exit", obj.currentState), io)
            ELSE called
        switched ==
            [exited EXCEPT !.previousState = exited.currentState,
                           !.currentState = newState]
    IN  IF exited.crashed
        THEN exited
        ELSE IF newConfig.Entry # NULL
             THEN CallEntryExit(newConfig.Entry,
                                Log(switched, "Entry", newState), io)
             ELSE switched

ChangeState(obj, newState, io) ==
    IF ~CanEnterState(obj, newState)
    THEN Printf(Log(obj, "Invalid", newState),
                {obj.stateConfigs[obj.currentState].name,
                 obj.stateConfigs[newState].name})
    ELSE Transition(obj, newState, io)

---------------------------------------------------------------------------
(* player.cpp : event handlers, movement, Update callbacks *)

(* Variant of PlayerIdleHandleEvent with the defect that EVENT_NONE       *)
(* requests Idle again.                                                    *)
PlayerIdleHandleEventNoneReenters(obj, event, io) ==
    CASE event = EVENT_MOVE -> ChangeState(obj, STATE_WALKING, io)
      [] event = EVENT_ATTACK -> ChangeState(obj, STATE_ATTACKING, io)
      [] event = EVENT_DEFEND -> ChangeState(obj, STATE_SHIELD, io)
      [] event = EVENT_DIE -> ChangeState(obj, STATE_DEAD, io)
      [] event = EVENT_NONE -> ChangeState(obj, STATE_IDLE, io)
      [] OTHER -> obj

PlayerIdleHandleEvent(obj, event, io) ==
    CASE event = EVENT_MOVE -> ChangeState(obj, STATE_WALKING, io)
      [] event = EVENT_ATTACK -> ChangeState(obj, STATE_ATTACKING, io)
      [] event = EVENT_DEFEND -> ChangeState(obj, STATE_SHIELD, io)
      [] event = EVENT_DIE -> ChangeState(obj, STATE_DEAD, io)
      [] event = EVENT_NONE -> [obj EXCEPT !.previousState = obj.currentState]
      [] OTHER -> obj

(* Variant of PlayerWalkingHandleEvent with the defect that EVENT_NONE is *)
(* handled as the Idle handler handles it.                                 *)
PlayerWalkingHandleEventNoneStays(obj, event, io) ==
    CASE event = EVENT_NONE -> [obj EXCEPT !.previousState = obj.currentState]
      [] event = EVENT_ATTACK -> ChangeState(obj, STATE_ATTACKING, io)
      [] event = EVENT_DIE -> ChangeState(obj, STATE_DEAD, io)
      [] OTHER -> obj

(* Variant of PlayerWalkingHandleEvent with the defect that a collision   *)
(* stops the walk.                                                         *)
PlayerWalkingHandleEventCollides(obj, event, io) ==
    CASE event = EVENT_NONE -> ChangeState(obj, STATE_IDLE, io)
      [] event = EVENT_COLLISION_START -> ChangeState(obj, STATE_IDLE, io)
      [] event = EVENT_ATTACK -> ChangeState(obj, STATE_ATTACKING, io)
      [] event = EVENT_DIE -> ChangeState(obj, STATE_DEAD, io)
      [] OTHER -> obj

PlayerWalkingHandleEvent(obj, event, io) ==
    CASE event = EVENT_NONE -> ChangeState(obj, STATE_IDLE, io)
      [] event = EVENT_ATTACK -> ChangeState(obj, STATE_ATTACKING, io)
      [] event = EVENT_DIE -> ChangeState(obj, STATE_DEAD, io)
      [] OTHER -> obj

PlayerAttackingHandleEvent(obj, event, io) ==
    CASE event = EVENT_NONE -> ChangeState(obj, STATE_IDLE, io)
      [] event = EVENT_DIE -> ChangeState(obj, STATE_DEAD, io)
      [] OTHER -> obj

PlayerShieldingHandleEvent(obj, event, io) ==
    CASE event = EVENT_NONE -> ChangeState(obj, STATE_IDLE, io)
      [] event = EVENT_DIE -> ChangeState(obj, STATE_DEAD, io)
      [] OTHER -> obj

(* Variant of PlayerDieHandleEvent with the defect that EVENT_RESPAWN     *)
(* is acted upon.                                                          *)
PlayerDieHandleEventRespawns(obj, event, io) ==
    IF event = EVENT_RESPAWN
    THEN ChangeState(obj, STATE_RESPAWN, io)
    ELSE obj

PlayerDieHandleEvent(obj, event, io) == obj

PlayerRespawnHandleEvent(obj, event, io) == obj

(* Variant of PlayerMove with the defect that the collider is not moved. *)
PlayerMoveColliderStale(player_, moveDirection) ==
    [player_ EXCEPT !.position = [x |-> player_.position.x + moveDirection.x,
                                  y |-> player_.position.y + moveDirection.y]]

PlayerMove(player_, moveDirection) ==
    LET moved == [x |-> player_.position.x + moveDirection.x,
                  y |-> player_.position.y + moveDirection.y]
    IN  [player_ EXCEPT !.position = moved,
                        !.collider.p = moved]

Animate(obj, io) ==
    [obj EXCEPT !.animation = UpdateAnimation(obj.animation, io.ft)]

(* Variant of PlayerUpdateIdle with the defect that the idle animation is *)
(* left to run to its last frame.                                          *)
PlayerUpdateIdleNoReroll(obj, io) == Animate(obj, io)

PlayerUpdateIdle(obj, io) ==
    LET updated == Animate(obj, io)
    IN  IF updated.animation.currentFrame = updated.animation.frameCount - 1
        THEN SelectRandomIdleAnimation(updated, io)
        ELSE updated

(* Variant of PlayerUpdateWalking with the defect that the step goes      *)
(* down the screen.                                                        *)
PlayerUpdateWalkingDown(obj, io) ==
    Animate(PlayerMove(obj, [x |-> 0, y |-> 1]), io)

PlayerUpdateWalking(obj, io) ==
    Animate(PlayerMove(obj, [x |-> 0, y |-> -1]), io)

PlayerUpdateAttacking(obj, io) == Animate(obj, io)

PlayerUpdateShielding(obj, io) == Animate(obj, io)

(* Variant of PlayerUpdateDie with the defect that it requests no         *)
(* transition.                                                             *)
PlayerUpdateDieStays(obj, io) == Animate(obj, io)

(* Variant of PlayerUpdateDie with the defect that it goes on to Idle in  *)
(* the same tick.                                                          *)
PlayerUpdateDieTwice(obj, io) ==
    Animate(ChangeState(ChangeState(obj, STATE_RESPAWN, io), STATE_IDLE, io),
            io)

PlayerUpdateDie(obj, io) == Animate(ChangeState(obj, STATE_RESPAWN, io), io)

PlayerUpdateRespawn(obj, io) == Animate(ChangeState(obj, STATE_IDLE, io), io)

---------------------------------------------------------------------------
(* npc.cpp : event handlers and Update callbacks *)

NPCIdleHandleEvent(obj, event, io) ==
    CASE event = EVENT_ATTACK -> ChangeState(obj, STATE_ATTACKING, io)
      [] event = EVENT_DEFEND -> ChangeState(obj, STATE_SHIELD, io)
      [] event = EVENT_DIE -> ChangeState(obj, STATE_DEAD, io)
      [] OTHER -> obj

NPCAttackingHandleEvent(obj, event, io) ==
    CASE event = EVENT_NONE -> ChangeState(obj, STATE_IDLE, io)
      [] event = EVENT_DEFEND -> ChangeState(obj, STATE_SHIELD, io)
      [] event = EVENT_DIE -> ChangeState(obj, STATE_DEAD, io)
      [] OTHER -> obj

NPCShieldingHandleEvent(obj, event, io) ==
    CASE event = EVENT_NONE -> ChangeState(obj, STATE_IDLE, io)
      [] event = EVENT_ATTACK -> ChangeState(obj, STATE_ATTACKING, io)
      [] event = EVENT_DIE -> ChangeState(obj, STATE_DEAD, io)
      [] OTHER -> obj

(* Variant of NPCDeadHandleEvent with the defect that a dead NPC ignores *)
(* every event.                                                            *)
NPCDeadHandleEventIgnoresAll(obj, event, io) == obj

(* The same in npc.cpp and npc.c (npc.c lists more ignored events). *)
NPCDeadHandleEvent(obj, event, io) ==
    CASE event = EVENT_NONE -> ChangeState(obj, STATE_IDLE, io)
      [] event = EVENT_RESPAWN -> ChangeState(obj, STATE_IDLE, io)
      [] OTHER -> obj

(* NPCUpdateIdle, NPCUpdateAttacking and NPCUpdateDead are the same in    *)
(* npc.cpp and npc.c.                                                      *)
NPCUpdateIdle(obj, io) == Animate(obj, io)

NPCUpdateAttacking(obj, io) == Animate(obj, io)

NPCUpdateShielding(obj, io) == Animate(obj, io)

(* Variant of NPCUpdateDead with the defect that it requests Idle, as the *)
(* Player's Respawn Update does.                                           *)
NPCUpdateDeadRevives(obj, io) == Animate(ChangeState(obj, STATE_IDLE, io), io)

NPCUpdateDead(obj, io) == Animate(obj, io)

---------------------------------------------------------------------------
(* npc.c : event handlers, movement, Update callbacks *)

NPCIdleHandleEvent_c(obj, event, io) ==
    CASE event = EVENT_NONE -> [obj EXCEPT !.previousState = obj.currentState]
      [] event = EVENT_ATTACK -> ChangeState(obj, STATE_ATTACKING, io)
      [] event = EVENT_MOVE_UP -> ChangeState(obj, STATE_MOVING_UP, io)
      [] event = EVENT_MOVE_DOWN -> ChangeState(obj, STATE_MOVING_DOWN, io)
      [] event = EVENT_MOVE_LEFT -> ChangeState(obj, STATE_MOVING_LEFT, io)
      [] event = EVENT_MOVE_RIGHT -> ChangeState(obj, STATE_MOVING_RIGHT, io)
      [] event = EVENT_DIE -> ChangeState(obj, STATE_DEAD, io)
      [] OTHER -> obj

NPCAttackingHandleEvent_c(obj, event, io) ==
    CASE event = EVENT_NONE -> ChangeState(obj, STATE_IDLE, io)
      [] event = EVENT_DEFEND -> ChangeState(obj, STATE_WALKING, io)
      [] event = EVENT_DIE -> ChangeState(obj, STATE_DEAD, io)
      [] OTHER -> obj

NPCMovingUpHandleEvent(obj, event, io) ==
    CASE event = EVENT_NONE -> ChangeState(obj, STATE_IDLE, io)
      [] event = EVENT_MOVE_DOWN -> ChangeState(obj, STATE_MOVING_DOWN, io)
      [] event = EVENT_MOVE_LEFT -> ChangeState(obj, STATE_MOVING_LEFT, io)
      [] event = EVENT_MOVE_RIGHT -> ChangeState(obj, STATE_MOVING_RIGHT, io)
      [] event = EVENT_ATTACK -> ChangeState(obj, STATE_ATTACKING, io)
      [] event = EVENT_DIE -> ChangeState(obj, STATE_DEAD, io)
      [] OTHER -> obj

NPCMovingDownHandleEvent(obj, event, io) ==
    CASE event = EVENT_NONE -> ChangeState(obj, STATE_IDLE, io)
      [] event = EVENT_MOVE_UP -> ChangeState(obj, STATE_MOVING_UP, io)
      [] event = EVENT_MOVE_LEFT -> ChangeState(obj, STATE_MOVING_LEFT, io)
      [] event = EVENT_MOVE_RIGHT -> ChangeState(obj, STATE_MOVING_RIGHT, io)
      [] event = EVENT_ATTACK -> ChangeState(obj, STATE_ATTACKING, io)
      [] event = EVENT_DIE -> ChangeState(obj, STATE_DEAD, io)
      [] OTHER -> obj

NPCMovingLeftHandleEvent(obj, event, io) ==
    CASE event = EVENT_NONE -> ChangeState(obj, STATE_IDLE, io)
      [] event = EVENT_MOVE_UP -> ChangeState(obj, STATE_MOVING_UP, io)
      [] event = EVENT_MOVE_DOWN -> ChangeState(obj, STATE_MOVING_DOWN, io)
      [] event = EVENT_MOVE_RIGHT -> ChangeState(obj, STATE_MOVING_RIGHT, io)
      [] event = EVENT_ATTACK -> ChangeState(obj, STATE_ATTACKING, io)
      [] event = EVENT_DIE -> ChangeState(obj, STATE_DEAD, io)
      [] OTHER -> obj

NPCMovingRightHandleEvent(obj, event, io) ==
    CASE event = EVENT_NONE -> ChangeState(obj, STATE_IDLE, io)
      [] event = EVENT_MOVE_UP -> ChangeState(obj, STATE_MOVING_UP, io)
      [] event = EVENT_MOVE_DOWN -> ChangeState(obj, STATE_MOVING_DOWN, io)
      [] event = EVENT_MOVE_LEFT -> ChangeState(obj, STATE_MOVING_LEFT, io)
      [] event = EVENT_ATTACK -> ChangeState(obj, STATE_ATTACKING, io)
      [] event = EVENT_DIE -> ChangeState(obj, STATE_DEAD, io)
      [] OTHER -> obj

NPCMove(npc_, moveDirection) ==
    LET moved == [x |-> npc_.position.x + moveDirection.x,
                  y |-> npc_.position.y + moveDirection.y]
    IN  [npc_ EXCEPT !.position = moved,
                     !.collider.p = moved]

(* NPCUpdateMovingUp, ...Down, ...Left and ...Right have the same body. *)
NPCUpdateMoving(obj, io) == Animate(NPCMove(obj, obj.velocity), io)

---------------------------------------------------------------------------
(* fsm.c : dispatch *)

(* The call config->HandleEvent(obj, event) through the pointer fn. *)
CallEventFunction(fn, obj, event, io) ==
    CASE fn = "PlayerIdleHandleEvent" -> PlayerIdleHandleEvent(obj, event, io)
      [] fn = "PlayerWalkingHandleEvent" -> PlayerWalkingHandleEvent(obj, event, io)
      [] fn = "PlayerAttackingHandleEvent" -> PlayerAttackingHandleEvent(obj, event, io)
      [] fn = "PlayerShieldingHandleEvent" -> PlayerShieldingHandleEvent(obj, event, io)
      [] fn = "PlayerDieHandleEvent" -> PlayerDieHandleEvent(obj, event, io)
      [] fn = "PlayerRespawnHandleEvent" -> PlayerRespawnHandleEvent(obj, event, io)
      [] fn = "NPCIdleHandleEvent" -> NPCIdleHandleEvent(obj, event, io)
      [] fn = "NPCAttackingHandleEvent" -> NPCAttackingHandleEvent(obj, event, io)
      [] fn = "NPCShieldingHandleEvent" -> NPCShieldingHandleEvent(obj, event, io)
      [] fn = "NPCDeadHandleEvent" -> NPCDeadHandleEvent(obj, event, io)
      [] fn = "NPCIdleHandleEvent_c" -> NPCIdleHandleEvent_c(obj, event, io)
      [] fn = "NPCAttackingHandleEvent_c" -> NPCAttackingHandleEvent_c(obj, event, io)
      [] fn = "NPCMovingUpHandleEvent" -> NPCMovingUpHandleEvent(obj, event, io)
      [] fn = "NPCMovingDownHandleEvent" -> NPCMovingDownHandleEvent(obj, event, io)
      [] fn = "NPCMovingLeftHandleEvent" -> NPCMovingLeftHandleEvent(obj, event, io)
      [] fn = "NPCMovingRightHandleEvent" -> NPCMovingRightHandleEvent(obj, event, io)
      [] OTHER -> Crash(obj)

(* The call config->Update(obj) through the pointer fn. *)
CallUpdate(fn, obj, io) ==
    CASE fn = "PlayerUpdateIdle" -> PlayerUpdateIdle(obj, io)
      [] fn = "PlayerUpdateWalking" -> PlayerUpdateWalking(obj, io)
      [] fn = "PlayerUpdateAttacking" -> PlayerUpdateAttacking(obj, io)
      [] fn = "PlayerUpdateShielding" -> PlayerUpdateShielding(obj, io)
      [] fn = "PlayerUpdateDie" -> PlayerUpdateDie(obj, io)
      [] fn = "PlayerUpdateRespawn" -> PlayerUpdateRespawn(obj, io)
      [] fn = "NPCUpdateIdle" -> NPCUpdateIdle(obj, io)
      [] fn = "NPCUpdateAttacking" -> NPCUpdateAttacking(obj, io)
      [] fn = "NPCUpdateShielding" -> NPCUpdateShielding(obj, io)
      [] fn = "NPCUpdateDead" -> NPCUpdateDead(obj, io)
      [] fn = "NPCUpdateMoving" -> NPCUpdateMoving(obj, io)
      [] OTHER -> Crash(obj)

(* Variant of HandleEvent with the defect that the handler pointer is     *)
(* called without the null check.                                          *)
HandleEventUnchecked(obj, event, io) ==
    CallEventFunction(obj.stateConfigs[obj.currentState].HandleEvent,
                      Log(obj, "HandleEvent", event), event, io)

HandleEvent(obj, event, io) ==
    LET config == obj.stateConfigs[obj.currentState]
        called == Log(obj, "HandleEvent", event)
    IN  IF config.HandleEvent # NULL
        THEN CallEventFunction(config.HandleEvent, called, event, io)
        ELSE called

UpdateState(obj, io) ==
    LET config == obj.stateConfigs[obj.currentState]
        called == Log(obj, "UpdateState", obj.currentState)
    IN  IF config.Update # NULL
        THEN CallUpdate(config.Update, called, io)
        ELSE called

---------------------------------------------------------------------------
(* player.cpp : table and constructor *)

InitPlayerFSM(obj) ==
    [obj EXCEPT !.stateConfigs =
        [s \in State |->
            CASE s = STATE_IDLE ->
                   Configure("Player_Idle", "PlayerIdleHandleEvent",
                       "PlayerEnterIdle", "PlayerUpdateIdle", "PlayerExitIdle",
                       <<STATE_WALKING, STATE_ATTACKING, STATE_SHIELD, STATE_DEAD>>)
              [] s = STATE_WALKING ->
                   Configure("Player_Walking", "PlayerWalkingHandleEvent",
                       "PlayerEnterWalking", "PlayerUpdateWalking", "PlayerExitWalking",
                       <<STATE_IDLE, STATE_ATTACKING, STATE_DEAD>>)
              [] s = STATE_ATTACKING ->
                   Configure("Player_Attacking", "PlayerAttackingHandleEvent",
                       "PlayerEnterAttacking", "PlayerUpdateAttacking", "PlayerExitAttacking",
                       <<STATE_IDLE, STATE_DEAD>>)
              [] s = STATE_SHIELD ->
                   Configure("Player_Shielding", "PlayerShieldingHandleEvent",
                       "PlayerEnterShielding", "PlayerUpdateShielding", "PlayerExitShielding",
                       <<STATE_IDLE, STATE_DEAD>>)
              [] s = STATE_DEAD ->
                   Configure("Player_Dead", "PlayerDieHandleEvent",
                       "PlayerEnterDie", "PlayerUpdateDie", "PlayerExitDie",
                       <<STATE_RESPAWN>>)
              [] s = STATE_RESPAWN ->
                   Configure("Player_Respawn", "PlayerRespawnHandleEvent",
                       "PlayerEnterRespawn", "PlayerUpdateRespawn", "PlayerExitRespawn",
                       <<STATE_IDLE>>)
              [] s = STATE_COLLISION -> EMPTY_STATE_CONFIG]]

(* InitPlayer with the initial state InitGameObject is given as a         *)
(* parameter; io.anim is the content of the animation member before it    *)
(* is initialised.                                                         *)
ConstructPlayer(name, currentState, io) ==
    LET centre == [x |-> screenWidth \div 2, y |-> screenHeight \div 2]
        base == InitPlayerFSM(
                    InitGameObject(name, centre, [x |-> 0, y |-> 0],
                        currentState, "GREEN", [p |-> centre, r |-> 10],
                        100, io.anim))
    IN  IF base.currentState = STATE_IDLE
        THEN PlayerEnterIdle(base, io)
        ELSE base

InitPlayer(name, io) == ConstructPlayer(name, STATE_IDLE, io)

---------------------------------------------------------------------------
(* npc.cpp : table and constructor *)

InitNPCFSM(obj) ==
    [obj EXCEPT !.stateConfigs =
        [s \in State |->
            CASE s = STATE_IDLE ->
                   Configure("NPC_Idle", "NPCIdleHandleEvent",
                       "NPCEnterIdle", "NPCUpdateIdle", "NPCExitIdle",
                       <<STATE_ATTACKING, STATE_SHIELD, STATE_DEAD>>)
              [] s = STATE_ATTACKING ->
                   Configure("NPC_Attacking", "NPCAttackingHandleEvent",
                       "NPCEnterAttacking", "NPCUpdateAttacking", "NPCExitAttacking",
                       <<STATE_IDLE, STATE_SHIELD, STATE_DEAD>>)
              [] s = STATE_SHIELD ->
                   Configure("NPC_Shielding", "NPCShieldingHandleEvent",
                       "NPCEnterShielding", "NPCUpdateShielding", "NPCExitShielding",
                       <<STATE_IDLE, STATE_ATTACKING, STATE_DEAD>>)
              [] s = STATE_DEAD ->
                   Configure("NPC_Dead", "NPCDeadHandleEvent",
                       "NPCEnterDead", "NPCUpdateDead", "NPCExitDead",
                       <<STATE_IDLE>>)
              [] s \in {STATE_WALKING, STATE_RESPAWN, STATE_COLLISION} ->
                   EMPTY_STATE_CONFIG]]

---------------------------------------------------------------------------
(* npc.c : table and constructor *)

(* io.heap is the content of the one table slot npc.c never writes,       *)
(* STATE_SHIELD.                                                           *)
InitNPCFSM_c(obj, io) ==
    [obj EXCEPT !.stateConfigs =
        [s \in State \cup MovingState |->
            CASE s = STATE_IDLE ->
                   Configure("NPC_Idle", "NPCIdleHandleEvent_c",
                       "NPCEnterIdle", "NPCUpdateIdle", "NPCExitIdle",
                       <<STATE_ATTACKING, STATE_MOVING_DOWN, STATE_MOVING_LEFT,
                         STATE_MOVING_RIGHT, STATE_DEAD>>)
              [] s = STATE_ATTACKING ->
                   Configure("NPC_Attacking", "NPCAttackingHandleEvent_c",
                       "NPCEnterAttacking", "NPCUpdateAttacking", "NPCExitAttacking",
                       <<STATE_IDLE, STATE_MOVING_DOWN, STATE_MOVING_LEFT,
                         STATE_MOVING_RIGHT, STATE_DEAD>>)
              [] s = STATE_MOVING_UP ->
                   Configure("NPC_Moving_Up", "NPCMovingUpHandleEvent",
                       "NPCEnterMovingUp", "NPCUpdateMoving", "NPCExitMovingUp",
                       <<STATE_IDLE, STATE_MOVING_DOWN, STATE_MOVING_LEFT,
                         STATE_MOVING_RIGHT, STATE_ATTACKING, STATE_SHIELD,
                         STATE_DEAD>>)
              [] s = STATE_MOVING_DOWN ->
                   Configure("NPC_Moving_Down", "NPCMovingDownHandleEvent",
                       "NPCEnterMovingDown", "NPCUpdateMoving", "NPCExitMovingDown",
                       <<STATE_IDLE, STATE_MOVING_UP, STATE_MOVING_LEFT,
                         STATE_MOVING_RIGHT, STATE_ATTACKING, STATE_SHIELD,
                         STATE_DEAD>>)
              [] s = STATE_MOVING_LEFT ->
                   Configure("NPC_Moving_Left", "NPCMovingLeftHandleEvent",
                       "NPCEnterMovingLeft", "NPCUpdateMoving", "NPCExitMovingLeft",
                       <<STATE_IDLE, STATE_MOVING_UP, STATE_MOVING_DOWN,
                         STATE_MOVING_RIGHT, STATE_ATTACKING, STATE_SHIELD,
                         STATE_DEAD>>)
              [] s = STATE_MOVING_RIGHT ->
                   Configure("NPC_Moving_Right", "NPCMovingRightHandleEvent",
                       "NPCEnterMovingRight", "NPCUpdateMoving", "NPCExitMovingRight",
                       <<STATE_IDLE, STATE_MOVING_UP, STATE_MOVING_DOWN,
                         STATE_MOVING_LEFT, STATE_ATTACKING, STATE_SHIELD,
                         STATE_DEAD>>)
              [] s = STATE_DEAD ->
                   Configure("NPC_Dead", "NPCDeadHandleEvent",
                       "NPCEnterDead", "NPCUpdateDead", "NPCExitDead",
                       <<STATE_IDLE>>)
              [] s \in {STATE_WALKING, STATE_RESPAWN, STATE_COLLISION} ->
                   EMPTY_STATE_CONFIG
              [] s = STATE_SHIELD -> io.heap]]

(* InitNPC, whose body is the same in npc.cpp and npc.c, with the initial *)
(* state InitGameObject is given as a parameter; nsrc is the file whose   *)
(* InitNPCFSM is linked.                                                   *)
ConstructNPC(name, currentState, io, nsrc) ==
    LET start == [x |-> screenWidth \div 2, y |-> 100]
        base == InitGameObject(name, start, [x |-> 0, y |-> 0],
                    currentState, "GREEN", [p |-> start, r |-> 10],
                    100, io.anim)
        tabled == IF nsrc = NPC_CPP
                  THEN InitNPCFSM(base)
                  ELSE InitNPCFSM_c(base, io)
    IN  IF tabled.currentState = STATE_IDLE
        THEN NPCEnterIdle(tabled, io)
        ELSE tabled

InitNPC(name, io, nsrc) == ConstructNPC(name, STATE_IDLE, io, nsrc)

---------------------------------------------------------------------------
(* mediator.cpp, command.c *)

(* A Mediator pointer: valid = FALSE is the null pointer; obj names the   *)
(* entity the mediator points to, or is NULL.                              *)
NullMediator == [valid |-> FALSE, obj |-> NULL]

(* Variant of CreateMediator with the defect that the obj member is left  *)
(* as malloc returned it.                                                  *)
CreateMediatorObjUnset(obj, allocated) ==
    IF ~allocated THEN NullMediator ELSE [valid |-> TRUE, obj |-> WILD]

(* allocated is whether malloc returned memory. *)
CreateMediator(obj, allocated) ==
    IF ~allocated THEN NullMediator ELSE [valid |-> TRUE, obj |-> obj]

(* Variant of MediatorDispatch with the defect that COMMAND_MOVE_DOWN is  *)
(* translated to EVENT_DEFEND.                                             *)
MediatorDispatchDefends(command, obj, io) ==
    LET event ==
            CASE command = COMMAND_NONE -> EVENT_NONE
              [] command = COMMAND_MOVE_UP -> EVENT_MOVE
              [] command = COMMAND_MOVE_DOWN -> EVENT_DEFEND
              [] command = COMMAND_MOVE_LEFT -> EVENT_MOVE
              [] command = COMMAND_MOVE_RIGHT -> EVENT_MOVE
              [] command = COMMAND_ATTACK -> EVENT_ATTACK
              [] command = COMMAND_COLLISION_START -> EVENT_DIE
              [] command = COMMAND_COLLISION_END -> EVENT_RESPAWN
              [] OTHER -> NULL
    IN  IF event = NULL THEN obj ELSE HandleEvent(obj, event, io)

(* The switch of MediatorExecuteCommand; obj is the entity mediator->obj  *)
(* points to.                                                              *)
MediatorDispatch(command, obj, io) ==
    LET event ==
            CASE command = COMMAND_NONE -> EVENT_NONE
              [] command = COMMAND_MOVE_UP -> EVENT_MOVE
              [] command = COMMAND_MOVE_DOWN -> EVENT_MOVE
              [] command = COMMAND_MOVE_LEFT -> EVENT_MOVE
              [] command = COMMAND_MOVE_RIGHT -> EVENT_MOVE
              [] command = COMMAND_ATTACK -> EVENT_ATTACK
              [] command = COMMAND_COLLISION_START -> EVENT_DIE
              [] command = COMMAND_COLLISION_END -> EVENT_RESPAWN
              [] OTHER -> NULL
    IN  IF event = NULL THEN obj ELSE HandleEvent(obj, event, io)

(* Whether MediatorExecuteCommand prints its error line. *)
MediatorReportsError(mediator_) == ~mediator_.valid \/ mediator_.obj = NULL

(* Variant of MediatorExecuteCommand with the defect that only the        *)
(* mediator pointer is checked: HandleEvent is called on a null obj.      *)
MediatorExecuteCommandObjUnchecked(command, mediator_, obj, io) ==
    IF ~mediator_.valid
    THEN obj
    ELSE IF mediator_.obj = NULL
         THEN Crash(obj)
         ELSE MediatorDispatch(command, obj, io)

(* obj is the entity mediator->obj points to when it is not null, and is  *)
(* returned as it is when there is none.                                   *)
MediatorExecuteCommand(command, mediator_, obj, io) ==
    IF ~mediator_.valid \/ mediator_.obj = NULL
    THEN obj
    ELSE MediatorDispatch(command, obj, io)

ExecuteCommand(command, mediator_, obj, io) ==
    MediatorExecuteCommand(command, mediator_, obj, io)

---------------------------------------------------------------------------
(* game.c : construction *)

(* InitGame: the player, the NPC and a mediator bound to the player. *)
InitGame(io, nsrc) ==
    [player |-> InitPlayer("Player Hero", io),
     npc |-> InitNPC("Skynet", io, nsrc),
     mediator |-> CreateMediator("player", TRUE)]

---------------------------------------------------------------------------
(* The state machine: the FSM operations as a caller may issue them on    *)
(* one of the two entities of the game.                                    *)

Entities == {"player", "npc"}

Entity(who) == IF who = "player" THEN player ELSE npc

(* Variant of Put with the defect that the two members of GameData point  *)
(* to one and the same entity.                                             *)
PutAliased(who, obj) == player' = obj /\ npc' = obj

Put(who, obj) ==
    IF who = "player"
    THEN player' = obj /\ UNCHANGED npc
    ELSE npc' = obj /\ UNCHANGED player

(* The entity the operations are issued on, now and after a step. *)
Tested == Entity(underTest)

TestedNext == IF underTest' = "player" THEN player' ELSE npc'

(* The values the environment may hand to one operation. *)
(* The outcomes of rand() % 7 + 1 that are followed. *)
Rolls == {r \in RandomChoice : r <= MaxRoll}

IO == [ft : FrameTimes, rnd : Rolls]

(* The values the environment may hand to the construction. *)
InitIO ==
    [ft : {0}, rnd : Rolls, anim : UninitAnimation,
     heap : UninitStateConfig]

(* The events the linked headers define. *)
Events == IF build = NPC_C THEN Event \cup DirEvent ELSE Event

(* The operations of the Player's life cycle, in order: Move, Attack and   *)
(* Die dispatched, then two ticks.                                         *)
LifeCycle ==
    <<[op |-> "HandleEvent", arg |-> EVENT_MOVE],
      [op |-> "HandleEvent", arg |-> EVENT_ATTACK],
      [op |-> "HandleEvent", arg |-> EVENT_DIE],
      [op |-> "UpdateState", arg |-> NULL],
      [op |-> "UpdateState", arg |-> NULL]>>

(* progress after the operation op(arg) on who: n + 1 when the operations *)
(* issued since construction, this one included, are the first n + 1 of   *)
(* LifeCycle on the Player, and -1 from then on when they are not.        *)
Followed(n, who, op, arg) ==
    IF /\ who = "player"
       /\ n \in 0..(Len(LifeCycle) - 1)
       /\ LifeCycle[n + 1] = [op |-> op, arg |-> arg]
    THEN n + 1
    ELSE -1

(* The record of the last operation: its name, argument and result, and  *)
(* the entity's currentState and previousState when it was called.       *)
Called(op, who, arg, ret, before) ==
    [op |-> op, who |-> who, arg |-> arg, ret |-> ret,
     from |-> before.currentState, fromPrev |-> before.previousState]

BoolName(b) == IF b THEN "true" ELSE "false"

HandleEventOp(who, event, io) ==
    LET before == Fresh(Entity(who))
        after == HandleEvent(before, event, io)
    IN  /\ who = underTest
        /\ ~before.crashed
        /\ stepsLeft > 0
        /\ stepsLeft' = stepsLeft - 1
        /\ progress' = Followed(progress, who, "HandleEvent", event)
        /\ Put(who, after)
        /\ lastCall' = Called("HandleEvent", who, event, "void", before)
        /\ UNCHANGED <<mediator, build, underTest, ticks, clock, lastAITime>>

UpdateStateOp(who, io) ==
    LET before == Fresh(Entity(who))
        after == UpdateState(before, io)
    IN  /\ who = underTest
        /\ ~before.crashed
        /\ stepsLeft > 0
        /\ stepsLeft' = stepsLeft - 1
        /\ progress' = Followed(progress, who, "UpdateState", NULL)
        /\ Put(who, after)
        /\ lastCall' = Called("UpdateState", who, NULL, "void", before)
        /\ UNCHANGED <<mediator, build, underTest, ticks, clock, lastAITime>>

ChangeStateOp(who, newState, io) ==
    LET before == Fresh(Entity(who))
        after == ChangeState(before, newState, io)
        ret == IF after.crashed
               THEN "crash"
               ELSE BoolName(ChangeStateResult(before, newState))
    IN  /\ who = underTest
        /\ ~before.crashed
        /\ stepsLeft > 0
        /\ stepsLeft' = stepsLeft - 1
        /\ progress' = Followed(progress, who, "ChangeState", newState)
        /\ newState \in DOMAIN before.stateConfigs
        /\ Put(who, after)
        /\ lastCall' = Called("ChangeState", who, newState, ret, before)
        /\ UNCHANGED <<mediator, build, underTest, ticks, clock, lastAITime>>

ExecuteCommandOp(command, io) ==
    LET who == IF MediatorReportsError(mediator)
               THEN underTest
               ELSE mediator.obj
        before == Fresh(Entity(who))
        after == ExecuteCommand(command, mediator, before, io)
        ret == IF MediatorReportsError(mediator) THEN "error" ELSE "void"
    IN  /\ who = underTest
        /\ ~before.crashed
        /\ stepsLeft > 0
        /\ stepsLeft' = stepsLeft - 1
        /\ progress' = Followed(progress, who, "ExecuteCommand", command)
        /\ Put(who, after)
        /\ lastCall' = Called("ExecuteCommand", who, command, ret, before)
        /\ UNCHANGED <<mediator, build, underTest, ticks, clock, lastAITime>>

Init ==
    \E nsrc \in Build, who \in Entities, io \in InitIO :
        LET game == InitGame(io, nsrc)
        IN  /\ player = game.player
            /\ npc = game.npc
            /\ mediator = game.mediator
            /\ build = nsrc
            /\ underTest = who
            /\ lastCall = Called("InitGame", who, NULL, "void", Entity(who))
            /\ stepsLeft = MaxSteps
            /\ progress = 0
            /\ ticks = NoTicks
            /\ clock = 0
            /\ lastAITime = 0

Next ==
    \/ \E who \in Entities, event \in Events, io \in IO :
           HandleEventOp(who, event, io)
    \/ \E who \in Entities, io \in IO : UpdateStateOp(who, io)
    \/ \E who \in Entities, newState \in State \cup MovingState, io \in IO :
           ChangeStateOp(who, newState, io)
    \/ \E command \in Command, io \in IO : ExecuteCommandOp(command, io)

Spec == Init /\ [][Next]_vars

---------------------------------------------------------------------------
(* The FSM engine on an entity that is constructed in any state of its    *)
(* table: InitGameObject takes the initial state as a parameter, and the  *)
(* constructors call the Idle Entry only when that state is STATE_IDLE.   *)

ConstructGame(io, nsrc, who, currentState) ==
    [player |-> IF who = "player"
                THEN ConstructPlayer("Player Hero", currentState, io)
                ELSE InitPlayer("Player Hero", io),
     npc |-> IF who = "npc"
             THEN ConstructNPC("Skynet", currentState, io, nsrc)
             ELSE InitNPC("Skynet", io, nsrc),
     mediator |-> CreateMediator("player", TRUE)]

InitAnyState ==
    \E nsrc \in Build, who \in Entities, io \in InitIO :
        \E currentState \in State \cup MovingState :
            LET game == ConstructGame(io, nsrc, who, currentState)
            IN  /\ currentState \in DOMAIN game[who].stateConfigs
                /\ player = game.player
                /\ npc = game.npc
                /\ mediator = game.mediator
                /\ build = nsrc
                /\ underTest = who
                /\ lastCall = Called("InitGame", who, NULL, "void", game[who])
                /\ stepsLeft = MaxSteps
            /\ progress = 0
            /\ ticks = NoTicks
            /\ clock = 0
            /\ lastAITime = 0

(* The two dispatch operations of fsm.c. *)
NextDispatch ==
    \/ \E who \in Entities, event \in Events, io \in IO :
           HandleEventOp(who, event, io)
    \/ \E who \in Entities, io \in IO : UpdateStateOp(who, io)

SpecAnyState == InitAnyState /\ [][NextDispatch]_vars

---------------------------------------------------------------------------
(* The Player of a freshly constructed game driven along LifeCycle: the   *)
(* run goes on for as long as the operations issued are those of          *)
(* LifeCycle, and ends with the first one that is not.                    *)

InitLifeCycle ==
    \E nsrc \in Build, io \in InitIO :
        LET game == InitGame(io, nsrc)
        IN  /\ player = game.player
            /\ npc = game.npc
            /\ mediator = game.mediator
            /\ build = nsrc
            /\ underTest = "player"
            /\ lastCall = Called("InitGame", "player", NULL, "void", game.player)
            /\ stepsLeft = Len(LifeCycle)
            /\ progress = 0
            /\ ticks = NoTicks
            /\ clock = 0
            /\ lastAITime = 0

NextLifeCycle ==
    \/ \E event \in Events, io \in IO :
           progress >= 0 /\ HandleEventOp("player", event, io)
    \/ \E io \in IO : progress >= 0 /\ UpdateStateOp("player", io)

SpecLifeCycle == InitLifeCycle /\ [][NextLifeCycle]_vars

---------------------------------------------------------------------------
(* The mediator as a caller may create and use it: bound to an entity, to *)
(* no entity, or not allocated.                                            *)

(* The pointers a caller may bind a mediator to. *)
Bindings == Entities \cup {NULL}

CreateMediatorOp(obj, allocated) ==
    LET created == CreateMediator(obj, allocated)
    IN  /\ obj \in {NULL, underTest}
        /\ stepsLeft > 0
        /\ stepsLeft' = stepsLeft - 1
        /\ progress' = Followed(progress, underTest, "CreateMediator", obj)
        /\ mediator' = created
        /\ lastCall' =
               [op |-> "CreateMediator", who |-> underTest, arg |-> obj,
                ret |-> IF created.valid THEN "mediator" ELSE "NULL",
                from |-> Tested.currentState,
                fromPrev |-> Tested.previousState,
                allocated |-> allocated]
        /\ UNCHANGED <<player, npc, build, underTest, ticks, clock, lastAITime>>

InitMediator ==
    \E nsrc \in Build, who \in Entities, io \in InitIO :
        \E obj \in {NULL, who}, allocated \in BOOLEAN :
            LET game == InitGame(io, nsrc)
            IN  /\ player = game.player
                /\ npc = game.npc
                /\ mediator = CreateMediator(obj, allocated)
                /\ build = nsrc
                /\ underTest = who
                /\ lastCall = Called("InitGame", who, NULL, "void", game[who])
                /\ stepsLeft = MaxCommands
                /\ progress = 0
                /\ ticks = NoTicks
                /\ clock = 0
                /\ lastAITime = 0

NextMediator ==
    \/ \E command \in Command, io \in IO : ExecuteCommandOp(command, io)
    \/ \E obj \in Bindings, allocated \in BOOLEAN :
           CreateMediatorOp(obj, allocated)

SpecMediator == InitMediator /\ [][NextMediator]_vars

---------------------------------------------------------------------------
(* Properties *)

(* The states in the nextStates array of a table slot. *)
Elements(seq) == {seq[i] : i \in DOMAIN seq}

(* The entry the call log holds for one call. *)
Call(call, arg, cur, prev) ==
    [call |-> call, arg |-> arg, cur |-> cur, prev |-> prev]

(* C1: a ChangeState(obj, target) that returns, returns true if and only  *)
(* if target is one of the states in the nextStates of the state obj was  *)
(* in, wherever in the array it stands; when it returns true the entity   *)
(* is in target.                                                           *)
C1_ReturnsTrueIffWhitelisted ==
    lastCall.op = "ChangeState" /\ lastCall.ret \in {"true", "false"} =>
        /\ lastCall.ret = "true" <=>
               lastCall.arg \in
                   Elements(Tested.stateConfigs[lastCall.from].nextStates)
        /\ lastCall.ret = "true" => Tested.currentState = lastCall.arg

(* ChangeState returned true for a target that is not the first entry of  *)
(* the whitelist.                                                          *)
C1_Witness ==
    /\ lastCall.op = "ChangeState"
    /\ lastCall.ret = "true"
    /\ Tested.stateConfigs[lastCall.from].nextStates[1] # lastCall.arg

(* C2: a ChangeState that succeeds calls Exit of the old state while       *)
(* currentState is still the old state, then sets previousState to the    *)
(* old state and currentState to the target, then calls Entry of the      *)
(* target, which sees the new values; each of the two is called once when *)
(* its pointer is set and not at all when it is null.  In the log of any  *)
(* operation an Exit entry is made in the state it exits and an Entry     *)
(* entry in the state it enters.                                           *)
C2_ExitSwitchEntryOrder ==
    /\ lastCall.op = "ChangeState" /\ lastCall.ret = "true" =>
           LET old == lastCall.from
               target == lastCall.arg
               table == Tested.stateConfigs
               change == <<Call("ChangeState", target, old, lastCall.fromPrev)>>
               exit == IF table[old].Exit # NULL
                       THEN <<Call("Exit", old, old, lastCall.fromPrev)>>
                       ELSE <<>>
               entry == IF table[target].Entry # NULL
                        THEN <<Call("Entry", target, target, old)>>
                        ELSE <<>>
           IN  /\ Tested.calls = change \o exit \o entry
               /\ Tested.currentState = target
               /\ Tested.previousState = old
    /\ \A i \in DOMAIN Tested.calls :
           LET c == Tested.calls[i]
           IN  /\ c.call = "Exit" =>
                      /\ c.cur = c.arg
                      /\ Tested.calls[i - 1].call = "ChangeState"
               /\ c.call = "Entry" =>
                      /\ c.cur = c.arg
                      /\ Tested.calls[i - 1].call \in {"ChangeState", "Exit"}
                      /\ c.prev = Tested.calls[i - 1].cur

(* A ChangeState succeeded and called both Exit and Entry. *)
C2_Witness ==
    /\ lastCall.op = "ChangeState"
    /\ lastCall.ret = "true"
    /\ Len(Tested.calls) = 3
    /\ Tested.calls[2].call = "Exit"
    /\ Tested.calls[3].call = "Entry"

(* C3: a ChangeState(obj, target) with target outside the nextStates of   *)
(* the current state returns false, calls neither Exit nor Entry, leaves  *)
(* every field of the entity as it was and lets the program continue.     *)
C3_InvalidTransitionIsHarmless ==
    [][(/\ lastCall'.op = "ChangeState"
        /\ lastCall'.arg \notin
               Elements(Tested.stateConfigs[Tested.currentState].nextStates))
       => /\ lastCall'.ret = "false"
          /\ TestedNext =
                 [Tested EXCEPT !.calls =
                     <<Call("Invalid", lastCall'.arg,
                            Tested.currentState, Tested.previousState)>>]]_vars

(* C4: in a state whose table slot is the empty placeholder, HandleEvent  *)
(* with any event and UpdateState change no field of the entity: only the *)
(* dispatch itself is logged.                                              *)
C4_PlaceholderDispatchChangesNothing ==
    [][(/\ lastCall'.op \in {"HandleEvent", "UpdateState"}
        /\ Tested.stateConfigs[Tested.currentState] = EMPTY_STATE_CONFIG)
       => TestedNext =
              [Tested EXCEPT !.calls =
                  <<Call(lastCall'.op,
                         IF lastCall'.op = "HandleEvent"
                         THEN lastCall'.arg
                         ELSE Tested.currentState,
                         Tested.currentState, Tested.previousState)>>]]_vars

(* An event was dispatched to an entity that is in STATE_COLLISION, a     *)
(* placeholder of every table.                                             *)
C4_Witness ==
    /\ lastCall.op = "HandleEvent"
    /\ lastCall.from = STATE_COLLISION
    /\ Tested.stateConfigs[STATE_COLLISION] = EMPTY_STATE_CONFIG
    /\ Tested.currentState = STATE_COLLISION

(* C5: a freshly constructed Player is in Idle; HandleEvent(Move) puts it *)
(* in Walking, then HandleEvent(Attack) in Attacking, then                *)
(* HandleEvent(Die) in Dead, then one UpdateState in Respawn and one more *)
(* UpdateState back in Idle, with previousState = Respawn; after each of  *)
(* the steps previousState is the state the step left.                    *)
C5_PlayerLifeCycle ==
    LET path == <<STATE_IDLE, STATE_WALKING, STATE_ATTACKING, STATE_DEAD,
                  STATE_RESPAWN, STATE_IDLE>>
    IN  progress >= 0 =>
            /\ player.currentState = path[progress + 1]
            /\ progress >= 1 => player.previousState = path[progress]
            /\ ~player.crashed

(* The whole cycle was run: Move, Attack, Die and two UpdateState calls   *)
(* brought the Player back to Idle.                                        *)
C5_Witness ==
    /\ progress = Len(LifeCycle)
    /\ lastCall.op = "UpdateState"
    /\ lastCall.from = STATE_RESPAWN
    /\ lastCall.fromPrev = STATE_DEAD
    /\ player.currentState = STATE_IDLE
    /\ player.previousState = STATE_RESPAWN

(* C6 as stated: one UpdateState while the NPC is in Dead moves it to     *)
(* Idle.                                                                   *)
C6_UpdateLeavesDead ==
    underTest = "npc" /\ lastCall.op = "UpdateState"
        /\ lastCall.from = STATE_DEAD => npc.currentState = STATE_IDLE

(* C6, amended: an UpdateState while the NPC is in Dead leaves it in Dead *)
(* (with previousState as it was); it is a dispatched None or Respawn     *)
(* event that moves the NPC from Dead to Idle, directly, with             *)
(* previousState = Dead, and every other event leaves it in Dead; the NPC *)
(* is never in Respawn.                                                    *)
C6_NPCLeavesDeadOnEvent ==
    /\ npc.currentState # STATE_RESPAWN
    /\ npc.previousState # STATE_RESPAWN
    /\ underTest = "npc" /\ lastCall.from = STATE_DEAD =>
        /\ lastCall.op = "UpdateState" =>
               /\ npc.currentState = STATE_DEAD
               /\ npc.previousState = lastCall.fromPrev
        /\ lastCall.op = "HandleEvent" =>
               IF lastCall.arg \in {EVENT_NONE, EVENT_RESPAWN}
               THEN /\ npc.currentState = STATE_IDLE
                    /\ npc.previousState = STATE_DEAD
               ELSE npc.currentState = STATE_DEAD

(* UpdateState was called on the NPC in Dead. *)
C6_Witness ==
    /\ underTest = "npc"
    /\ lastCall.op = "UpdateState"
    /\ lastCall.from = STATE_DEAD
    /\ npc.currentState = STATE_DEAD

(* C7: HandleEvent(EVENT_NONE) on an entity in Idle, however often it is  *)
(* repeated, leaves currentState = Idle and performs no ChangeState: the  *)
(* log of the operation holds the dispatch alone, no Exit and no Entry.   *)
C7_NoneInIdleStaysIdle ==
    (/\ lastCall.op = "HandleEvent"
     /\ lastCall.arg = EVENT_NONE
     /\ lastCall.from = STATE_IDLE)
    => /\ Tested.currentState = STATE_IDLE
       /\ Tested.calls =
              <<Call("HandleEvent", EVENT_NONE, STATE_IDLE, lastCall.fromPrev)>>

(* EVENT_NONE was dispatched in Idle after an earlier EVENT_NONE in Idle  *)
(* (which is what makes previousState = Idle).                             *)
C7_Witness ==
    /\ lastCall.op = "HandleEvent"
    /\ lastCall.arg = EVENT_NONE
    /\ lastCall.from = STATE_IDLE
    /\ lastCall.fromPrev = STATE_IDLE
    /\ stepsLeft <= MaxSteps - 2

(* The Player whitelist as C8 states it. *)
C8_Whitelist ==
    [s \in State |->
        CASE s = STATE_IDLE ->
               {STATE_WALKING, STATE_ATTACKING, STATE_SHIELD, STATE_DEAD}
          [] s = STATE_WALKING -> {STATE_IDLE, STATE_ATTACKING, STATE_DEAD}
          [] s = STATE_ATTACKING -> {STATE_IDLE, STATE_DEAD}
          [] s = STATE_SHIELD -> {STATE_IDLE, STATE_DEAD}
          [] s = STATE_DEAD -> {STATE_RESPAWN}
          [] s = STATE_RESPAWN -> {STATE_IDLE}
          [] s = STATE_COLLISION -> {}]

(* C8: the Player's table holds exactly the whitelist Idle -> {Walking,   *)
(* Attacking, Shield, Dead}, Walking -> {Idle, Attacking, Dead},          *)
(* Attacking -> {Idle, Dead}, Shield -> {Idle, Dead}, Dead -> {Respawn},  *)
(* Respawn -> {Idle}, Collision -> {}; every transition the Player makes, *)
(* in any operation, is one of these.                                      *)
C8_PlayerWhitelistExact ==
    /\ DOMAIN player.stateConfigs = State
    /\ \A s \in State :
           /\ Elements(player.stateConfigs[s].nextStates) = C8_Whitelist[s]
           /\ player.stateConfigs[s].nextStatesCount =
                  Cardinality(C8_Whitelist[s])
    /\ \A i \in DOMAIN player.calls :
           player.calls[i].call = "ChangeState" =>
               player.calls[i].arg \in C8_Whitelist[player.calls[i].cur]
    /\ underTest = "player" /\ player.currentState # lastCall.from =>
           player.currentState \in C8_Whitelist[lastCall.from]

(* ChangeState(player, Idle) was refused while the Player was in Dead. *)
C8_Witness ==
    /\ underTest = "player"
    /\ lastCall.op = "ChangeState"
    /\ lastCall.from = STATE_DEAD
    /\ lastCall.arg = STATE_IDLE
    /\ lastCall.ret = "false"
    /\ player.currentState = STATE_DEAD

C9_Whitelist ==
    IF build = NPC_CPP
    THEN [s \in State |->
            CASE s = STATE_IDLE -> {STATE_ATTACKING, STATE_SHIELD, STATE_DEAD}
              [] s = STATE_ATTACKING -> {STATE_IDLE, STATE_SHIELD, STATE_DEAD}
              [] s = STATE_SHIELD -> {STATE_IDLE, STATE_ATTACKING, STATE_DEAD}
              [] s = STATE_DEAD -> {STATE_IDLE}
              [] OTHER -> {}]
    ELSE [s \in (State \cup MovingState) \ {STATE_SHIELD} |->
            CASE s = STATE_IDLE ->
                   {STATE_ATTACKING, STATE_MOVING_DOWN, STATE_MOVING_LEFT,
                    STATE_MOVING_RIGHT, STATE_DEAD}
              [] s = STATE_ATTACKING ->
                   {STATE_IDLE, STATE_MOVING_DOWN, STATE_MOVING_LEFT,
                    STATE_MOVING_RIGHT, STATE_DEAD}
              [] s \in MovingState ->
                   ({STATE_IDLE, STATE_ATTACKING, STATE_SHIELD, STATE_DEAD}
                        \cup MovingState) \ {s}
              [] s = STATE_DEAD -> {STATE_IDLE}
              [] OTHER -> {}]

C10_Mapping ==
    [c \in Command |->
        CASE c \in {COMMAND_MOVE_UP, COMMAND_MOVE_UP_RIGHT,
                    COMMAND_MOVE_UP_LEFT, COMMAND_MOVE_DOWN,
                    COMMAND_MOVE_DOWN_LEFT, COMMAND_MOVE_DOWN_RIGHT,
                    COMMAND_MOVE_LEFT, COMMAND_MOVE_RIGHT} -> EVENT_MOVE
          [] c = COMMAND_ATTACK -> EVENT_ATTACK
          [] c = COMMAND_COLLISION_START -> EVENT_DIE
          [] c = COMMAND_COLLISION_END -> EVENT_RESPAWN
          [] OTHER -> EVENT_NONE]

(* C10: MediatorExecuteCommand on a bound mediator dispatches exactly one *)
(* event to the bound entity for every command: Move for the eight MOVE   *)
(* commands, Attack for ATTACK, Die for COLLISION_START, Respawn for      *)
(* COLLISION_END, None for NONE and any other command.                    *)
C10_OneEventPerCommand ==
    lastCall.op = "ExecuteCommand" =>
        /\ Len(CallsOf(Tested, "HandleEvent")) = 1
        /\ Tested.calls[1] =
               Call("HandleEvent", C10_Mapping[lastCall.arg],
                    lastCall.from, lastCall.fromPrev)

(* C11: MediatorExecuteCommand with a null mediator, or with a mediator   *)
(* whose obj is null, reports the error, dispatches no event, changes no  *)
(* field of either entity and returns, whatever the command.              *)
C11_UnboundMediatorDoesNothing ==
    [][(lastCall'.op = "ExecuteCommand" /\ MediatorReportsError(mediator))
       => /\ lastCall'.ret = "error"
          /\ TestedNext = [Tested EXCEPT !.calls = <<>>]
          /\ ~TestedNext.crashed
          /\ \A who \in Entities \ {underTest} : Entity(who)' = Entity(who)
          /\ mediator' = mediator]_vars

(* A command other than NONE was executed on an allocated mediator whose  *)
(* obj is null, and the entity is as it was constructed.                   *)
C11_Witness ==
    /\ lastCall.op = "ExecuteCommand"
    /\ lastCall.arg = COMMAND_ATTACK
    /\ lastCall.ret = "error"
    /\ mediator.valid
    /\ mediator.obj = NULL
    /\ Tested.currentState = STATE_IDLE

(* C12 as stated: CreateMediator(NULL) produces no mediator. *)
C12_NullEntityIsRefused ==
    lastCall.op = "CreateMediator" /\ lastCall.arg = NULL => ~mediator.valid

(* C12, amended: CreateMediator returns NULL only when the allocation     *)
(* fails; otherwise it returns a mediator whose obj is the pointer it was *)
(* given, a null pointer included.                                         *)
C12_CreateMediatorBindsWhatItIsGiven ==
    lastCall.op = "CreateMediator" =>
        /\ mediator.valid <=> lastCall.allocated
        /\ mediator.valid => mediator.obj = lastCall.arg
        /\ lastCall.ret = (IF lastCall.allocated THEN "mediator" ELSE "NULL")

(* CreateMediator(NULL) returned a mediator, and its obj is null. *)
C12_Witness ==
    /\ lastCall.op = "CreateMediator"
    /\ lastCall.arg = NULL
    /\ lastCall.ret = "mediator"
    /\ mediator.valid
    /\ mediator.obj = NULL

---------------------------------------------------------------------------
(* gameobject.cpp : collision *)

(* Positions and radii are whole pixels. *)
Vector2Subtract(v1, v2) == [x |-> v1.x - v2.x, y |-> v1.y - v2.y]

Vector2Add(v1, v2) == [x |-> v1.x + v2.x, y |-> v1.y + v2.y]

Vector2Scale(v, scale) == [x |-> v.x * scale, y |-> v.y * scale]

Vector2LengthSqr(v) == v.x * v.x + v.y * v.y

(* The whole part of the square root of n. *)
WholeSqrt(n) == CHOOSE k \in 0..n : k * k <= n /\ n < (k + 1) * (k + 1)

(* Vector2Distance is sqrtf of the squared length; the model keeps its    *)
(* whole part, which compares with a whole threshold as the distance      *)
(* itself does: sqrt(n) < t exactly when the whole part of sqrt(n) < t.   *)
Vector2Distance(v1, v2) == WholeSqrt(Vector2LengthSqr(Vector2Subtract(v1, v2)))

(* Vector2Normalize of a vector along one axis; the zero vector is left   *)
(* as it is. A vector off the axes has no whole-pixel unit vector and is  *)
(* not followed.                                                           *)
Sign(n) == IF n > 0 THEN 1 ELSE IF n < 0 THEN -1 ELSE 0

AlongAxis(v) == v.x = 0 \/ v.y = 0

Vector2Normalize(v) == [x |-> Sign(v.x), y |-> Sign(v.y)]

(* cute_c2: the squared distance of the centres is below the squared sum  *)
(* of the radii.                                                           *)
c2CircletoCircle(A, B) ==
    Vector2LengthSqr(Vector2Subtract(B.p, A.p)) < (A.r + B.r) * (A.r + B.r)

COLLISION_BUFFER == 2

COLLISION_PUSH_BACK == 2

CheckCollisionInclusive(lhs, rhs) ==
    IF ~c2CircletoCircle(lhs.collider, rhs.collider)
    THEN FALSE
    ELSE Vector2Distance(lhs.position, rhs.position)
             <= (lhs.collider.r + rhs.collider.r) - COLLISION_BUFFER

CheckCollision(lhs, rhs) ==
    IF ~c2CircletoCircle(lhs.collider, rhs.collider)
    THEN FALSE
    ELSE Vector2Distance(lhs.position, rhs.position)
             < (lhs.collider.r + rhs.collider.r) - COLLISION_BUFFER

(* HandleCollision writes health and position of lhs and color of rhs;    *)
(* the collider of lhs is not written.                                     *)
HandleCollision(lhs, rhs) ==
    LET collisionDirection ==
            Vector2Normalize(Vector2Subtract(lhs.position, rhs.position))
    IN  [lhs |-> [lhs EXCEPT
                     !.health = @ - 5,
                     !.position = Vector2Add(@,
                         Vector2Scale(collisionDirection, COLLISION_PUSH_BACK))],
         rhs |-> [rhs EXCEPT !.color = "RED"]]

(* The collision functions as the game loop calls them on the two         *)
(* entities, the player standing anywhere within MaxGap of the NPC.       *)

CheckCollisionOp(lhs, rhs) ==
    /\ lhs # rhs
    /\ stepsLeft > 0
    /\ stepsLeft' = stepsLeft - 1
    /\ progress' = Followed(progress, lhs, "CheckCollision", rhs)
    /\ lastCall' = Called("CheckCollision", lhs, rhs,
                       BoolName(CheckCollision(Entity(lhs), Entity(rhs))),
                       Entity(lhs))
    /\ UNCHANGED <<player, npc, mediator, build, underTest, ticks, clock, lastAITime>>

(* UpdateGame calls HandleCollision(player, npc) when CheckCollision has  *)
(* returned true.                                                          *)
HandleCollisionOp ==
    LET handled == HandleCollision(player, npc)
    IN  /\ CheckCollision(player, npc)
        /\ AlongAxis(Vector2Subtract(player.position, npc.position))
        /\ stepsLeft > 0
        /\ stepsLeft' = stepsLeft - 1
        /\ progress' = Followed(progress, "player", "HandleCollision", "npc")
        /\ player' = handled.lhs
        /\ npc' = handled.rhs
        /\ lastCall' = Called("HandleCollision", "player", "npc", "void", player)
        /\ UNCHANGED <<mediator, build, underTest, ticks, clock, lastAITime>>

(* PlayerUpdateWalking calls PlayerMove with the direction (0, -1). *)
PlayerMoveOp ==
    /\ stepsLeft > 0
    /\ stepsLeft' = stepsLeft - 1
    /\ progress' = Followed(progress, "player", "PlayerMove", NULL)
    /\ player' = PlayerMove(player, [x |-> 0, y |-> -1])
    /\ lastCall' = Called("PlayerMove", "player", NULL, "void", player)
    /\ UNCHANGED <<npc, mediator, build, underTest, ticks, clock, lastAITime>>

(* The player moved to the place at the given offset from the NPC. *)
Placed(game, offset) ==
    LET place == Vector2Add(game.npc.position, offset)
    IN  [game EXCEPT !.player.position = place,
                     !.player.collider.p = place]

InitCollision ==
    \E nsrc \in Build, io \in InitIO, offset \in [x : 0..MaxGap, y : 0..MaxGap] :
        LET game == Placed(InitGame(io, nsrc), offset)
        IN  /\ io.anim.frames = NULL
            /\ io.heap = EMPTY_STATE_CONFIG
            /\ player = game.player
            /\ npc = game.npc
            /\ mediator = game.mediator
            /\ build = nsrc
            /\ underTest = "player"
            /\ lastCall = Called("InitGame", "player", NULL, "void", game.player)
            /\ stepsLeft = MaxSteps
            /\ progress = 0
            /\ ticks = NoTicks
            /\ clock = 0
            /\ lastAITime = 0

NextCollision ==
    \/ \E lhs \in Entities, rhs \in Entities : CheckCollisionOp(lhs, rhs)
    \/ HandleCollisionOp
    \/ PlayerMoveOp

SpecCollision == InitCollision /\ [][NextCollision]_vars

---------------------------------------------------------------------------
(* animation.c : the animation of one entity driven on its own *)

(* The frame sets, frame counts and frame durations the entities play. *)
Clips ==
    {[frames |-> "idle", frameCount |-> 6, speed |-> 2],
     [frames |-> "attacking", frameCount |-> 6, speed |-> 1],
     [frames |-> "walk", frameCount |-> 9, speed |-> 1],
     [frames |-> "idle1", frameCount |-> 8, speed |-> 2]}

(* The frame times of the calls: zero, which changes nothing on an        *)
(* initialised animation, is left out.                                     *)
TickTimes == 1..MaxTick \cup {MaxElapsed}

Ticked(summary, ft, before, after) ==
    [n |-> summary.n + 1,
     elapsed |-> summary.elapsed + ft,
     advances |-> summary.advances +
                      (IF after.currentFrame # before.currentFrame THEN 1 ELSE 0),
     each |-> IF summary.n = 0 \/ summary.each = ft THEN ft ELSE -1]

UpdateAnimationOp(ft) ==
    LET before == Tested.animation
        after == UpdateAnimation(before, ft)
    IN  /\ ticks.elapsed + ft <= MaxElapsed
        /\ Put(underTest, [Tested EXCEPT !.animation = after])
        /\ ticks' = Ticked(ticks, ft, before, after)
        /\ lastCall' = [op |-> "UpdateAnimation", who |-> underTest,
                        arg |-> ft, ret |-> "void", prev |-> before]
        /\ UNCHANGED <<mediator, build, underTest, stepsLeft, progress,
                       clock, lastAITime>>

InitAnimationOp(clip, loop) ==
    LET before == Tested.animation
        after == InitAnimation(before, clip.frames, clip.frameCount,
                     clip.speed, loop)
    IN  /\ Put(underTest, [Malloced(Tested) EXCEPT !.animation = after])
        /\ ticks' = NoTicks
        /\ lastCall' = [op |-> "InitAnimation", who |-> underTest,
                        arg |-> clip, ret |-> "void", prev |-> before]
        /\ UNCHANGED <<mediator, build, underTest, stepsLeft, progress,
                       clock, lastAITime>>

InitGameObjectAnimationOp(clip) ==
    LET before == Tested.animation
        after == InitGameObjectAnimation(Tested, clip.frames,
                     clip.frameCount, clip.speed)
    IN  /\ Put(underTest, after)
        /\ ticks' = NoTicks
        /\ lastCall' = [op |-> "InitGameObjectAnimation", who |-> underTest,
                        arg |-> clip, ret |-> "void", prev |-> before]
        /\ UNCHANGED <<mediator, build, underTest, stepsLeft, progress,
                       clock, lastAITime>>

InitAnimated ==
    \E nsrc \in Build, who \in Entities, io \in InitIO :
        LET game == InitGame(io, nsrc)
        IN  /\ io.anim.frames = NULL
            /\ io.heap = EMPTY_STATE_CONFIG
            /\ player = game.player
            /\ npc = game.npc
            /\ mediator = game.mediator
            /\ build = nsrc
            /\ underTest = who
            /\ lastCall = [op |-> "InitGame", who |-> who, arg |-> NULL,
                           ret |-> "void", prev |-> io.anim]
            /\ stepsLeft = 0
            /\ progress = -1
            /\ ticks = NoTicks
            /\ clock = 0
            /\ lastAITime = 0

NextAnimated ==
    \/ \E ft \in TickTimes : UpdateAnimationOp(ft)
    \/ \E clip \in Clips, loop \in BOOLEAN : InitAnimationOp(clip, loop)
    \/ \E clip \in Clips : InitGameObjectAnimationOp(clip)

SpecAnimated == InitAnimated /\ [][NextAnimated]_vars

(* The animation under test is the 6-frame, 0.2 s, looping one and the    *)
(* calls since its InitAnimation add up to 6 * 0.2 s = 1.2 s.             *)
C14_Case ==
    /\ Tested.animation.loop
    /\ Tested.animation.frameCount = 6
    /\ Tested.animation.frameDuration = 2
    /\ ticks.elapsed = 12

(* C14 as stated: 1.2 s of UpdateAnimation calls advance the frame index  *)
(* of a looping 6-frame, 0.2 s animation exactly 6 times and leave        *)
(* currentFrame = 0, however the 1.2 s is divided into calls.             *)
C14_SixAdvancesHoweverDivided ==
    C14_Case => ticks.advances = 6 /\ Tested.animation.currentFrame = 0

(* C14, amended: the 1.2 s advance the frame index exactly 6 times and    *)
(* leave currentFrame = 0 when they arrive as 6 calls of 0.2 s or as 12   *)
(* calls of 0.1 s; however they are divided, a call advances the index by *)
(* at most one and restarts the timer from zero, so the index advances at *)
(* most 6 times, and currentFrame is the number of advances modulo 6.     *)
C14_SixAdvancesInEqualTicks ==
    C14_Case =>
        /\ ticks.each \in {1, 2} => ticks.advances = 6
        /\ ticks.advances <= 6
        /\ Tested.animation.currentFrame = ticks.advances % 6

(* Twelve calls of 0.1 s were made on the looping 6-frame, 0.2 s          *)
(* animation; the index advanced 6 times and is back at 0.                *)
C14_Witness ==
    /\ C14_Case
    /\ lastCall.op = "UpdateAnimation"
    /\ ticks.each = 1
    /\ ticks.n = 12
    /\ ticks.advances = 6
    /\ Tested.animation.currentFrame = 0

(* C15: an UpdateAnimation call on a non-looping animation leaves         *)
(* currentFrame at most frameCount - 1, and leaves it at frameCount - 1   *)
(* when it was there before the call, whatever the frame time.            *)
C15_NonLoopingStaysOnLastFrame ==
    [][(lastCall'.op = "UpdateAnimation" /\ ~Tested.animation.loop)
       => LET before == Tested.animation
              after == TestedNext.animation
          IN  /\ after.currentFrame <= after.frameCount - 1
              /\ before.currentFrame = before.frameCount - 1
                     => after.currentFrame = after.frameCount - 1
              /\ after.frameCount = before.frameCount
              /\ ~after.loop]_vars

(* A non-looping animation was on its last frame, an UpdateAnimation call *)
(* brought its timer to the frame duration, and it is on the last frame.  *)
C15_Witness ==
    /\ lastCall.op = "UpdateAnimation"
    /\ ~Tested.animation.loop
    /\ lastCall.prev.currentFrame = Tested.animation.frameCount - 1
    /\ lastCall.prev.frameTimer + lastCall.arg >= Tested.animation.frameDuration
    /\ Tested.animation.currentFrame = Tested.animation.frameCount - 1
    /\ ticks.advances = Tested.animation.frameCount - 1

(* C16: replacing the animation of an entity, by InitAnimation or by      *)
(* InitGameObjectAnimation, leaves currentFrame = 0, frameTimer = 0 and   *)
(* active = true, and the frame set, frame count, duration and loop flag  *)
(* it was given, whatever the replaced animation was.                     *)
C16_ReplacedAnimationStartsOver ==
    [][lastCall'.op \in {"InitAnimation", "InitGameObjectAnimation"}
       => LET after == TestedNext.animation
              clip == lastCall'.arg
          IN  /\ after.currentFrame = 0
              /\ after.frameTimer = 0
              /\ after.active
              /\ after.frames = clip.frames
              /\ after.frameCount = clip.frameCount
              /\ after.frameDuration = clip.speed
              /\ lastCall'.op = "InitGameObjectAnimation" => after.loop
              /\ lastCall'.prev = Tested.animation]_vars

(* An animation that was past its first frame with time on its timer was  *)
(* replaced through InitGameObjectAnimation and starts over.              *)
C16_Witness ==
    /\ lastCall.op = "InitGameObjectAnimation"
    /\ lastCall.prev.currentFrame > 0
    /\ lastCall.prev.frameTimer > 0
    /\ ~lastCall.prev.loop
    /\ lastCall.prev.frames # lastCall.arg.frames
    /\ Tested.animation.currentFrame = 0
    /\ Tested.animation.frameTimer = 0
    /\ Tested.animation.active

---------------------------------------------------------------------------
(* ai_manager.c and game.c : the frame *)

(* The 1.0f of the cadence test and the 300.0f of PollAI, the first in    *)
(* tenths of a second.                                                     *)
AI_PERIOD == 10

AI_RANGE == 300

(* PollAI returns the command and writes obj: an obj without health is    *)
(* put at (450, 450) with full health; its collider is not written.       *)
PollAI(obj, player_) ==
    IF obj.health <= 0
    THEN [obj |-> [obj EXCEPT !.position = [x |-> 450, y |-> 450],
                              !.health = 100],
          command |-> COMMAND_NONE]
    ELSE IF Vector2Distance(obj.position, player_.position) < AI_RANGE
    THEN [obj |-> obj,
          command |->
              IF obj.position.y > player_.position.y THEN COMMAND_MOVE_UP
              ELSE IF obj.position.y < player_.position.y THEN COMMAND_MOVE_DOWN
              ELSE IF obj.position.x > player_.position.x THEN COMMAND_MOVE_LEFT
              ELSE IF obj.position.x < player_.position.x THEN COMMAND_MOVE_RIGHT
              ELSE COMMAND_NONE]
    ELSE [obj |-> obj, command |-> COMMAND_NONE]

(* game.c calls PollAI with no argument, as the random policy its comment *)
(* and the comment of PollAI describe, while ai_manager.c defines the     *)
(* chase of the player over (obj, player): the frame is given either the  *)
(* command of the chase, over the NPC and the player, or any one command. *)
CHASE == "PollAI(npc, player)"

Polled(ai, obj, player_) ==
    IF ai = CHASE
    THEN PollAI(obj, player_)
    ELSE [obj |-> obj, command |-> ai]

(* The switch of UpdateGame over the polled command; NULL where it        *)
(* dispatches nothing.                                                     *)
AIEvent(command) ==
    CASE command = COMMAND_NONE -> EVENT_NONE
      [] command \in {COMMAND_MOVE_UP, COMMAND_MOVE_DOWN,
                      COMMAND_MOVE_LEFT, COMMAND_MOVE_RIGHT} -> EVENT_MOVE
      [] command = COMMAND_ATTACK -> EVENT_ATTACK
      [] command = COMMAND_COLLISION_START -> EVENT_DIE
      [] command = COMMAND_COLLISION_END -> EVENT_RESPAWN
      [] OTHER -> NULL

(* F applied to the value of x, x evaluated once. *)
Then(x, F(_)) == CHOOSE r \in {F(v) : v \in {x}} : TRUE

(* One entry of the log of a frame: the call, the entity it is made on,   *)
(* its argument, and after it the positions of the player and the NPC and *)
(* the currentState of the player.                                         *)
Step(g, call, who, arg) ==
    Then(g, LAMBDA v :
        [v EXCEPT !.log = Append(@, [call |-> call, who |-> who, arg |-> arg,
                                     player |-> v.player.position,
                                     npc |-> v.npc.position,
                                     state |-> v.player.currentState])])

(* Lines 42-47: the polled input through the mediator, then the update of *)
(* the player.                                                             *)
PlayerPhase(g, command, io) ==
    Then(Then(g, LAMBDA a :
             Step([a EXCEPT !.player =
                      IF MediatorReportsError(a.mediator)
                      THEN @
                      ELSE ExecuteCommand(command, a.mediator, @, io)],
                  "ExecuteCommand", "player", command)),
         LAMBDA b :
             Step([b EXCEPT !.player = UpdateState(@, io)],
                  "UpdateState", "player", NULL))

(* Variant of AICadenceFires with the defect that the AI is polled in    *)
(* every frame.                                                            *)
AICadenceFiresAlways(g) == TRUE

(* Line 54: GetTime() - lastAITime >= 1.0f *)
AICadenceFires(g) == g.clock - g.lastAITime >= AI_PERIOD

(* Lines 49-98: the AI event of the NPC when the cadence fires, then the  *)
(* update of the NPC.                                                      *)
NPCPhase(g, ai, io) ==
    Then(Then(g, LAMBDA a :
             IF AICadenceFires(a)
             THEN Then(Then(Then(Polled(ai, a.npc, a.player), LAMBDA polled :
                                Step([a EXCEPT !.npc = polled.obj],
                                     "PollAI", "npc", polled.command)),
                            LAMBDA b :
                                Then(AIEvent(b.log[Len(b.log)].arg),
                                     LAMBDA event :
                                         IF event = NULL
                                         THEN b
                                         ELSE Step([b EXCEPT !.npc =
                                                       HandleEvent(@, event, io)],
                                                   "HandleEvent", "npc", event))),
                       LAMBDA c :
                           [c EXCEPT !.lastAITime = c.clock, !.fired = TRUE])
             ELSE a),
         LAMBDA d :
             Step([d EXCEPT !.npc = UpdateState(@, io)],
                  "UpdateState", "npc", NULL))

(* Lines 100-117: the collision check and its resolution. *)
CollisionPhase(g, io) ==
    Then(Then(g, LAMBDA a :
             Step(a, "CheckCollision", "player",
                  BoolName(CheckCollision(a.player, a.npc)))),
         LAMBDA b :
             IF b.log[Len(b.log)].arg = "true"
             THEN Then(Then(Then(Then(b, LAMBDA s :
                  IF s.player.currentState # STATE_COLLISION
                  THEN Step([s EXCEPT !.player =
                                HandleEvent(@, EVENT_COLLISION_START, io)],
                            "HandleEvent", "player", EVENT_COLLISION_START)
                  ELSE s),
                  LAMBDA c :
                      Then(HandleCollision(c.player, c.npc), LAMBDA handled :
                          Step([c EXCEPT !.player = handled.lhs,
                                         !.npc = handled.rhs],
                               "HandleCollision", "player", "npc"))),
                  LAMBDA d :
                      Step(d, "CheckCollision", "player",
                           BoolName(CheckCollision(d.player, d.npc)))),
                  LAMBDA e :
                      IF e.log[Len(e.log)].arg = "false"
                      THEN Step([e EXCEPT !.player =
                                    HandleEvent(@, EVENT_NONE, io)],
                                "HandleEvent", "player", EVENT_NONE)
                      ELSE e)
             ELSE b)

(* The members of GameData and the static of UpdateGame at the start of a *)
(* frame, the call logs of the entities and of the frame empty.           *)
Frame(player_, npc_, mediator_, clock_, lastAITime_) ==
    [player |-> Fresh(player_), npc |-> Fresh(npc_), mediator |-> mediator_,
     clock |-> clock_, lastAITime |-> lastAITime_, fired |-> FALSE,
     log |-> <<>>]

(* Variant of UpdateGame with the defect that the collision is checked    *)
(* and resolved before the NPC is updated.                                 *)
UpdateGameCollisionFirst(g, command, ai, io) ==
    NPCPhase(CollisionPhase(PlayerPhase(g, command, io), io), ai, io)

UpdateGame(g, command, ai, io) ==
    CollisionPhase(NPCPhase(PlayerPhase(g, command, io), ai, io), io)

(* The game loop: frames of UpdateGame on the game InitGame built, the    *)
(* player standing a step or two short of touching the NPC.               *)

(* The commands PollInput is let to return: none, a move, the attack, the *)
(* two collision keys and a diagonal move.                                 *)
PolledInputs ==
    {COMMAND_NONE, COMMAND_MOVE_UP, COMMAND_ATTACK, COMMAND_COLLISION_START,
     COMMAND_COLLISION_END, COMMAND_MOVE_UP_LEFT}

(* What the AI poll is let to return: the chase, or one of these. *)
PolledAI ==
    {CHASE, COMMAND_NONE, COMMAND_ATTACK, COMMAND_COLLISION_START,
     COMMAND_MOVE_UP_LEFT}

(* A frame that took one tenth of a second less than the AI period. *)
Stall == AI_PERIOD - 1

(* The frames take the longest frame time or stall; every rand() of the   *)
(* run has the outcome MaxRoll.                                            *)
GameIO == [ft : {MaxFrameTime, Stall}, rnd : {MaxRoll}]

UpdateGameOp(command, ai, io) ==
    /\ stepsLeft > 0
    /\ ~player.crashed
    /\ ~npc.crashed
    /\ \E g \in {UpdateGame(Frame(player, npc, mediator, clock + io.ft,
                      lastAITime), command, ai, io)} :
           /\ g.fired \/ ai = CHASE
           /\ stepsLeft' = stepsLeft - 1
           /\ progress' = Followed(progress, "player", "UpdateGame", command)
           /\ player' = g.player
           /\ npc' = g.npc
           /\ clock' = g.clock
           /\ lastAITime' = g.lastAITime
           /\ lastCall' =
                  [op |-> "UpdateGame", who |-> "player", arg |-> command,
                   ret |-> IF g.player.crashed \/ g.npc.crashed
                           THEN "crash"
                           ELSE "void",
                   from |-> player.currentState,
                   fromPrev |-> player.previousState,
                   fired |-> g.fired,
                   waited |-> g.clock - lastAITime,
                   log |-> g.log]
           /\ UNCHANGED <<mediator, build, underTest, ticks>>

InitLoop ==
    \E nsrc \in Build, io \in InitIO, gap \in (MaxGap - 1)..MaxGap :
        \E fired \in {0, AI_PERIOD} :
            LET game == Placed(InitGame(io, nsrc), [x |-> 0, y |-> gap])
            IN  /\ io.anim.frames = NULL
                /\ io.heap = EMPTY_STATE_CONFIG
                /\ io.rnd = MaxRoll
                /\ player = game.player
                /\ npc = game.npc
                /\ mediator = game.mediator
                /\ build = nsrc
                /\ underTest = "player"
                /\ lastCall =
                       [op |-> "InitGame", who |-> "player", arg |-> NULL,
                        ret |-> "void",
                        from |-> game.player.currentState,
                        fromPrev |-> game.player.previousState,
                        fired |-> fired > 0,
                        waited |-> fired,
                        log |-> <<>>]
                /\ stepsLeft = MaxFrames
                /\ progress = -1
                /\ ticks = NoTicks
                /\ clock = fired
                /\ lastAITime = fired

NextLoop ==
    \E command \in PolledInputs, ai \in PolledAI, io \in GameIO :
        UpdateGameOp(command, ai, io)

SpecLoop == InitLoop /\ [][NextLoop]_vars

(* The calls of a frame log, each with the entity it is made on. *)
CallsIn(log) == [i \in 1..Len(log) |-> <<log[i].call, log[i].who>>]

(* C17: the calls of one UpdateGame frame are, in this order: the polled  *)
(* command through the mediator and UpdateState on the player; the AI     *)
(* poll with at most one HandleEvent on the NPC, exactly when the cadence *)
(* fires; UpdateState on the NPC; CheckCollision, and when it returns     *)
(* true the resolution. CheckCollision is given the positions the two     *)
(* UpdateState calls of the frame left.                                    *)
C17_FrameOrder ==
    (lastCall.op = "UpdateGame" /\ lastCall.ret = "void") =>
        LET log == lastCall.log
            toPlayer == <<"HandleEvent", "player">>
            aiParts == {<< >>,
                        << <<"PollAI", "npc">> >>,
                        << <<"PollAI", "npc">>, <<"HandleEvent", "npc">> >>}
            resolution == << <<"HandleCollision", "player">>,
                             <<"CheckCollision", "player">> >>
            resolutions == {<< >>,
                            resolution,
                            <<toPlayer>> \o resolution,
                            resolution \o <<toPlayer>>,
                            <<toPlayer>> \o resolution \o <<toPlayer>>}
        IN  \E ai \in aiParts, res \in resolutions :
                LET npcUpdate == 3 + Len(ai)
                    check == npcUpdate + 1
                IN  /\ CallsIn(log) =
                           << <<"ExecuteCommand", "player">>,
                              <<"UpdateState", "player">> >>
                           \o ai
                           \o << <<"UpdateState", "npc">>,
                                 <<"CheckCollision", "player">> >>
                           \o res
                    /\ ai # << >> <=> lastCall.fired
                    /\ res # << >> <=> log[check].arg = "true"
                    /\ log[check].player = log[2].player
                    /\ log[check].npc = log[npcUpdate].npc

(* A frame in which the cadence fired, the NPC was given an event, the    *)
(* player walked into the NPC and the collision was resolved: ten calls.  *)
C17_Witness ==
    /\ lastCall.op = "UpdateGame"
    /\ lastCall.ret = "void"
    /\ lastCall.fired
    /\ Len(lastCall.log) = 10
    /\ lastCall.log[4].call = "HandleEvent"
    /\ lastCall.log[4].who = "npc"
    /\ lastCall.log[6].call = "CheckCollision"
    /\ lastCall.log[6].arg = "true"
    /\ lastCall.log[8].call = "HandleCollision"
    /\ lastCall.log[2].player # lastCall.log[1].player

(* C18: a frame gives the NPC at most one AI event, and only when the     *)
(* clock is at least 1 second past lastAITime, the time of the previous   *)
(* AI poll (0 before the first); a frame in which less than 1 second has  *)
(* passed polls no AI, gives the NPC no event, leaves lastAITime alone    *)
(* and still calls UpdateState on the NPC.                                 *)
C18_AIEventOnCadence ==
    [][lastCall'.op = "UpdateGame"
       => LET log == lastCall'.log
              toNPC == SelectSeq(log,
                           LAMBDA e : e.who = "npc" /\ e.call = "HandleEvent")
              polls == SelectSeq(log, LAMBDA e : e.call = "PollAI")
              updates == SelectSeq(log,
                             LAMBDA e : e.who = "npc" /\ e.call = "UpdateState")
              waited == clock' - lastAITime
          IN  /\ Len(toNPC) <= 1
              /\ Len(toNPC) = 1 => waited >= AI_PERIOD
              /\ Len(polls) = (IF waited >= AI_PERIOD THEN 1 ELSE 0)
              /\ Len(toNPC) <= Len(polls)
              /\ lastAITime' = (IF waited >= AI_PERIOD THEN clock' ELSE lastAITime)
              /\ Len(updates) = 1
              /\ clock' >= clock]_vars

(* The NPC was given an AI event in a frame that began exactly 1 second   *)
(* after the previous poll, the frame before having given it none.        *)
C18_Witness ==
    /\ lastCall.op = "UpdateGame"
    /\ lastCall.fired
    /\ lastCall.waited = AI_PERIOD
    /\ lastCall.log[4].call = "HandleEvent"
    /\ lastCall.log[4].who = "npc"
    /\ lastAITime = clock
    /\ stepsLeft = MaxFrames - 2

(* C19: a frame whose collision check finds the player, in Idle, Walking, *)
(* Attacking or Shield, colliding with the NPC moves the player to Dead.  *)
C19_CollisionKillsPlayer ==
    lastCall.op = "UpdateGame" =>
        \A i \in 1..Len(lastCall.log) :
            (/\ lastCall.log[i].call = "CheckCollision"
             /\ lastCall.log[i].arg = "true"
             /\ lastCall.log[i].state \in
                    {STATE_IDLE, STATE_WALKING, STATE_ATTACKING, STATE_SHIELD})
            => \E j \in (i + 1)..Len(lastCall.log) :
                   lastCall.log[j].state = STATE_DEAD

(* C20: the collider centre of each entity is its position. *)
C20_ColliderOnPosition ==
    \A who \in Entities : Entity(who).collider.p = Entity(who).position

---------------------------------------------------------------------------
(* player.cpp, npc.c : the movement helpers called on their own *)

(* The direction vectors a caller may hand to a movement helper. *)
Directions == [x : (-MaxStride)..MaxStride, y : (-MaxStride)..MaxStride]

(* PlayerMove(player, d), or NPCMove(npc, &d) where npc.c is linked:       *)
(* npc.cpp has no movement helper. A run moves one of the two entities.   *)
MoveOp(who, moveDirection) ==
    LET before == Entity(who)
    IN  /\ who = underTest
        /\ who = "npc" => build = NPC_C
        /\ stepsLeft > 0
        /\ stepsLeft' = stepsLeft - 1
        /\ progress' = -1
        /\ Put(who, IF who = "player"
                    THEN PlayerMove(before, moveDirection)
                    ELSE NPCMove(before, moveDirection))
        /\ lastCall' =
               [op |-> "Move", who |-> who, arg |-> moveDirection,
                ret |-> "void",
                from |-> before.currentState,
                fromPrev |-> before.previousState,
                before |-> before]
        /\ UNCHANGED <<mediator, build, underTest, ticks, clock, lastAITime>>

(* The game InitGame built, the player two short of MaxGap below the NPC. *)
InitMove ==
    \E nsrc \in Build, who \in Entities, io \in InitIO :
        LET game == Placed(InitGame(io, nsrc), [x |-> 0, y |-> MaxGap - 2])
        IN  /\ io.anim.frames = NULL
            /\ io.heap = EMPTY_STATE_CONFIG
            /\ player = game.player
            /\ npc = game.npc
            /\ mediator = game.mediator
            /\ build = nsrc
            /\ underTest = who
            /\ lastCall = Called("InitGame", who, NULL, "void", game[who])
            /\ stepsLeft = MaxSteps
            /\ progress = 0
            /\ ticks = NoTicks
            /\ clock = 0
            /\ lastAITime = 0

NextMove ==
    \/ \E who \in Entities, moveDirection \in Directions :
           MoveOp(who, moveDirection)
    \/ HandleCollisionOp

SpecMove == InitMove /\ [][NextMove]_vars

(* C21: PlayerMove and NPCMove, given an entity and a direction vector d,  *)
(* leave position = old position + d and the collider centre = the new    *)
(* position, whatever the collider centre was before, and write nothing   *)
(* else of the entity: the state a caller sees after the call never has   *)
(* the position moved and the collider not.                                *)
C21_MoveKeepsColliderOnPosition ==
    lastCall.op = "Move" =>
        LET after == Entity(lastCall.who)
            moved == Vector2Add(lastCall.before.position, lastCall.arg)
        IN  /\ after.position = moved
            /\ after.collider.p = after.position
            /\ after = [lastCall.before EXCEPT !.position = moved,
                                               !.collider.p = moved]

(* HandleCollision had pushed the player's position off its collider, and *)
(* PlayerMove with a direction off the axes put both on the same point.   *)
C21_Witness ==
    /\ lastCall.op = "Move"
    /\ lastCall.who = "player"
    /\ lastCall.arg.x # 0
    /\ lastCall.arg.y # 0
    /\ lastCall.before.collider.p # lastCall.before.position
    /\ player.position # lastCall.before.position
    /\ player.collider.p = player.position

---------------------------------------------------------------------------
(* gameobject.cpp : one HandleCollision step *)

(* C22: one HandleCollision(lhs, rhs) step reduces lhs health by exactly  *)
(* 5, leaves rhs health and rhs position unchanged, recolours rhs, and    *)
(* moves lhs position away from rhs so that the distance of the two       *)
(* positions grows by exactly COLLISION_PUSH_BACK, for every pair of      *)
(* positions at which CheckCollision returned true, coincident positions  *)
(* included.                                                               *)
C22_PushGrowsDistance ==
    [][lastCall'.op = "HandleCollision"
       => /\ player'.health = player.health - 5
          /\ npc'.health = npc.health
          /\ npc'.position = npc.position
          /\ npc'.color = "RED"
          /\ Vector2Distance(player'.position, npc'.position)
                 = Vector2Distance(player.position, npc.position)
                       + COLLISION_PUSH_BACK]_vars

(* The same step for positions that do not coincide. *)
C22_PushGrowsDistanceWhenApart ==
    [][/\ lastCall'.op = "HandleCollision"
       /\ player.position # npc.position
       => /\ player'.health = player.health - 5
          /\ npc'.health = npc.health
          /\ npc'.position = npc.position
          /\ npc'.color = "RED"
          /\ Vector2Distance(player'.position, npc'.position)
                 = Vector2Distance(player.position, npc.position)
                       + COLLISION_PUSH_BACK]_vars

---------------------------------------------------------------------------
(* game.c : the frames of a player who holds the move-up key down, the    *)
(* NPC chasing.                                                            *)

InitSiege ==
    \E nsrc \in Build, io \in InitIO, gap \in (MaxGap - 1)..MaxGap :
        LET game == Placed(InitGame(io, nsrc), [x |-> 0, y |-> gap])
        IN  /\ io.anim.frames = NULL
            /\ io.heap = EMPTY_STATE_CONFIG
            /\ io.rnd = MaxRoll
            /\ player = game.player
            /\ npc = game.npc
            /\ mediator = game.mediator
            /\ build = nsrc
            /\ underTest = "player"
            /\ lastCall =
                   [op |-> "InitGame", who |-> "player", arg |-> NULL,
                    ret |-> "void",
                    from |-> game.player.currentState,
                    fromPrev |-> game.player.previousState,
                    fired |-> FALSE,
                    waited |-> 0,
                    log |-> <<>>]
            /\ stepsLeft = MaxSiege
            /\ progress = -1
            /\ ticks = NoTicks
            /\ clock = 0
            /\ lastAITime = 0

NextSiege ==
    \E io \in GameIO :
        io.ft = MaxFrameTime /\ UpdateGameOp(COMMAND_MOVE_UP, CHASE, io)

SpecSiege == InitSiege /\ [][NextSiege]_vars

(* C23: the player's health stays within 0..100, so that the fraction     *)
(* health/100 DrawGame draws the health bar with stays within [0, 1],     *)
(* after any sequence of frames, any number of collision frames included. *)
C23_HealthWithinBar == player.health \in 0..100

---------------------------------------------------------------------------
(* animation.c : the frame arrays on the heap *)

(* C24: whenever an Entry or Update callback selects a new animation for  *)
(* an entity, the frame array of the previous animation is released       *)
(* before it is replaced: at any time at most one allocated frame array   *)
(* exists per entity.                                                      *)
C24_AtMostOneFrameArray ==
    \A who \in Entities : Entity(who).frameArrays <= 1

---------------------------------------------------------------------------
(* player.cpp, npc.cpp, npc.c : the constructed entity *)

---------------------------------------------------------------------------
(* game.c, main.cpp : the game loop running for ever *)

(* The commands PollInput returns here: the player stands still. *)
StandingInputs ==
    {COMMAND_NONE, COMMAND_ATTACK, COMMAND_COLLISION_START,
     COMMAND_COLLISION_END}

(* What the AI poll returns here: the chase, nothing, or a collision. *)
LoopAI == {CHASE, COMMAND_NONE, COMMAND_COLLISION_START}

(* The frames of the loop counted, modulo 2. *)
Counted(t) == [t EXCEPT !.n = (@ + 1) % 2]

(* One frame of a loop that never ends. GetTime() grows without bound and *)
(* UpdateGame reads it only in GetTime() - lastAITime: clock and          *)
(* lastAITime are both kept as the time since the last AI poll.           *)
GameLoopOp(command, ai, io) ==
    /\ ~player.crashed
    /\ ~npc.crashed
    /\ \E g \in {UpdateGame(Frame(player, npc, mediator, clock + io.ft,
                      lastAITime), command, ai, io)} :
           /\ g.fired \/ ai = CHASE
           /\ player' = g.player
           /\ npc' = g.npc
           /\ clock' = g.clock - g.lastAITime
           /\ lastAITime' = 0
           /\ ticks' = Counted(ticks)
           /\ lastCall' =
                  [op |-> "UpdateGame", who |-> "player", arg |-> command,
                   ret |-> IF g.player.crashed \/ g.npc.crashed
                           THEN "crash"
                           ELSE "void",
                   from |-> player.currentState,
                   fromPrev |-> player.previousState,
                   fired |-> g.fired,
                   waited |-> g.clock - lastAITime,
                   log |-> g.log,
                   ai |-> ai,
                   npcFrom |-> npc.currentState]
           /\ UNCHANGED <<mediator, build, underTest, stepsLeft, progress>>

InitGameLoop ==
    \E nsrc \in Build, io \in InitIO :
        LET game == Placed(InitGame(io, nsrc), [x |-> 0, y |-> MaxGap])
        IN  /\ io.anim.frames = NULL
            /\ io.rnd = MaxRoll
            /\ player = game.player
            /\ npc = game.npc
            /\ mediator = game.mediator
            /\ build = nsrc
            /\ underTest = "player"
            /\ lastCall =
                   [op |-> "InitGame", who |-> "player", arg |-> NULL,
                    ret |-> "void",
                    from |-> game.player.currentState,
                    fromPrev |-> game.player.previousState,
                    fired |-> FALSE,
                    waited |-> 0,
                    log |-> <<>>,
                    ai |-> NULL,
                    npcFrom |-> game.npc.currentState]
            /\ stepsLeft = 0
            /\ progress = -1
            /\ ticks = NoTicks
            /\ clock = 0
            /\ lastAITime = 0

(* Every frame of the loop takes the time of a stalled frame. *)
NextGameLoop ==
    \E command \in StandingInputs, ai \in LoopAI, io \in GameIO :
        io.ft = Stall /\ GameLoopOp(command, ai, io)

(* A step that counts a frame: the steps of NextGameLoop, and no other    *)
(* step of the loop, change the count.                                     *)
FrameCounted == ticks' = Counted(ticks)

(* The loop of main runs frame after frame. *)
SpecGameLoop ==
    /\ InitGameLoop
    /\ [][NextGameLoop]_vars
    /\ WF_ticks(FrameCounted)

(* The last frame polled the AI and the poll returned COMMAND_NONE. *)
PolledNone ==
    /\ lastCall.op = "UpdateGame"
    /\ lastCall.fired
    /\ lastCall.ai = COMMAND_NONE

---------------------------------------------------------------------------
(* player.cpp, npc.cpp, npc.c : the slots of the constructed tables *)

(* A slot that is fully configured: a name to print, a handler to call    *)
(* and a whitelist copied by StateTransitions.                             *)
FullyConfigured(config) ==
    /\ config.name \notin {NULL, WILD}
    /\ config.HandleEvent \notin {NULL, WILD}
    /\ config.nextStatesCount > 0
    /\ Len(config.nextStates) = config.nextStatesCount

(* C27: in the table InitPlayerFSM or InitNPCFSM has built, every slot is *)
(* fully configured or is the empty placeholder.                           *)
C27_EverySlotSet ==
    \A who \in Entities :
        \A s \in DOMAIN Entity(who).stateConfigs :
            \/ FullyConfigured(Entity(who).stateConfigs[s])
            \/ Entity(who).stateConfigs[s] = EMPTY_STATE_CONFIG

---------------------------------------------------------------------------
(* fsm.c, player.cpp, npc.cpp, npc.c : the ChangeState calls of one       *)
(* dispatch or tick                                                        *)

(* Where in the call log of obj ChangeState is called, whether it finds   *)
(* the transition valid or not.                                            *)
ChangeStateCalls(obj) ==
    {i \in DOMAIN obj.calls : obj.calls[i].call \in {"ChangeState", "Invalid"}}

(* C28: one HandleEvent or UpdateState calls ChangeState at most once,     *)
(* and never from an Entry or Exit callback: no ChangeState call follows   *)
(* an Entry or an Exit in the call log. The entity's state changes by at  *)
(* most one transition: when it has changed, it is the target of that one *)
(* call, made in the state the entity was in, which is now previousState. *)
C28_OneChangeStatePerCall ==
    lastCall.op \in {"HandleEvent", "UpdateState"} =>
        /\ Cardinality(ChangeStateCalls(Tested)) <= 1
        /\ \A i \in ChangeStateCalls(Tested) :
               \A j \in 1..(i - 1) :
                   Tested.calls[j].call \notin {"Entry", "Exit"}
        /\ Tested.currentState # lastCall.from =>
               /\ Tested.previousState = lastCall.from
               /\ \E i \in ChangeStateCalls(Tested) :
                      /\ Tested.calls[i].call = "ChangeState"
                      /\ Tested.calls[i].cur = lastCall.from
                      /\ Tested.calls[i].arg = Tested.currentState

(* A tick of the Player in Dead has called ChangeState once, then the     *)
(* Exit of Dead and the Entry of Respawn.                                  *)
C28_Witness ==
    /\ lastCall.op = "UpdateState"
    /\ lastCall.who = "player"
    /\ lastCall.from = STATE_DEAD
    /\ player.currentState = STATE_RESPAWN
    /\ [i \in 1..Len(player.calls) |-> player.calls[i].call]
           = <<"UpdateState", "ChangeState", "Exit", "Entry">>

---------------------------------------------------------------------------
(* player.cpp : the Player left in Idle, tick after tick *)

InitIdle ==
    \E nsrc \in Build, io \in InitIO :
        LET game == InitGame(io, nsrc)
        IN  /\ player = game.player
            /\ npc = game.npc
            /\ mediator = game.mediator
            /\ build = nsrc
            /\ underTest = "player"
            /\ lastCall = Called("InitGame", "player", NULL, "void", game.player)
            /\ stepsLeft = MaxIdleTicks
            /\ progress = 0
            /\ ticks = NoTicks
            /\ clock = 0
            /\ lastAITime = 0

NextIdle == \E io \in IO : UpdateStateOp("player", io)

SpecIdle == InitIdle /\ [][NextIdle]_vars

(* The animations SelectRandomIdleAnimation can start. *)
IdleAnimations ==
    {InitAnimation(player.animation, IdleFrames[r], 8, 2, TRUE) :
         r \in RandomChoice}

(* C29: an UpdateState of the Player in Idle calls UpdateAnimation and,   *)
(* when that leaves the frame index on the last frame, starts one of the  *)
(* 7 idle animations at frame 0; the Player stays in Idle and the frame   *)
(* index after the tick is never that of the last frame.                  *)
C29_IdleRerollsOnLastFrame ==
    [][(/\ lastCall'.op = "UpdateState"
        /\ lastCall'.who = "player"
        /\ player.currentState = STATE_IDLE)
           => /\ player'.currentState = STATE_IDLE
              /\ player'.animation.currentFrame
                     # player'.animation.frameCount - 1
              /\ \E io \in IO :
                     LET ticked == UpdateAnimation(player.animation, io.ft)
                     IN  IF ticked.currentFrame = ticked.frameCount - 1
                         THEN player'.animation \in IdleAnimations
                         ELSE player'.animation = ticked]_vars

(* A tick of the idling Player has started a second idle animation: the   *)
(* first one had come to its last frame.                                   *)
C29_Witness ==
    /\ lastCall.op = "UpdateState"
    /\ lastCall.from = STATE_IDLE
    /\ player.currentState = STATE_IDLE
    /\ player.frameArrays = 2
    /\ player.animation.currentFrame = 0
    /\ player.animation.frameTimer = 0

---------------------------------------------------------------------------
(* player.cpp : the step of the walking Player *)

(* C30: an UpdateState of the Player in Walking moves it by (0, -1), the  *)
(* collider with it, and an UpdateState in any other state leaves its     *)
(* position as it was; whichever command made the Player walk, its x is   *)
(* the x it was constructed with, and no other operation moves it.        *)
C30_WalkingStepsUp ==
    /\ [](player.position.x = screenWidth \div 2)
    /\ [][IF /\ lastCall'.op = "UpdateState"
             /\ lastCall'.who = "player"
             /\ player.currentState = STATE_WALKING
          THEN /\ player'.position = [x |-> player.position.x,
                                      y |-> player.position.y - 1]
               /\ player'.collider.p = player'.position
          ELSE /\ player'.position = player.position
               /\ player'.collider = player.collider]_vars

(* A tick of the walking Player has moved it, and its collider, one pixel *)
(* up from where it was constructed.                                       *)
C30_Witness ==
    /\ lastCall.op = "UpdateState"
    /\ lastCall.who = "player"
    /\ lastCall.from = STATE_WALKING
    /\ player.position = [x |-> screenWidth \div 2,
                          y |-> screenHeight \div 2 - 1]
    /\ player.collider.p = player.position

---------------------------------------------------------------------------
(* player.cpp, npc.cpp, npc.c : no state lists itself *)

---------------------------------------------------------------------------
(* gameobject.cpp, game.c, mediator.cpp : deletion *)

(* A pointer into the heap: the block it points to, the null pointer, or  *)
(* a pointer that was never assigned.                                      *)
NullPointer == [kind |-> NULL, who |-> NULL, state |-> NULL]

WildPointer(who, s) == [kind |-> WILD, who |-> who, state |-> s]

NextStatesBlock(who, s) == [kind |-> "nextStates", who |-> who, state |-> s]

TableBlock(who) == [kind |-> "stateConfigs", who |-> who, state |-> NULL]

EntityBlock(who) == [kind |-> "entity", who |-> who, state |-> NULL]

MediatorBlock == [kind |-> "mediator", who |-> NULL, state |-> NULL]

(* obj->stateConfigs[s].nextStates: the array StateTransitions allocated  *)
(* for a configured state, null in a placeholder, and whatever malloc     *)
(* returned in a slot that was never written.                              *)
NextStatesPointer(obj, who, s) ==
    LET config == obj.stateConfigs[s]
    IN  IF config = EMPTY_STATE_CONFIG
        THEN NullPointer
        ELSE IF config \in UninitStateConfig
             THEN WildPointer(who, s)
             ELSE NextStatesBlock(who, s)

(* The indices 0 .. STATE_COUNT - 1 of a table, in order. *)
TableSeq(obj) ==
    StateSeq \o SelectSeq(<<STATE_MOVING_UP, STATE_MOVING_DOWN,
                            STATE_MOVING_LEFT, STATE_MOVING_RIGHT>>,
                          LAMBDA s : s \in DOMAIN obj.stateConfigs)

(* One access to the heap made by a deletion. *)
Access(call, block) == <<[call |-> call, block |-> block]>>

(* The for loop of DeleteGameObject from index i on: the accesses it      *)
(* makes when every call of free returns.                                  *)
RECURSIVE FreeNextStates(_, _, _)
FreeNextStates(obj, who, i) ==
    IF i > Len(TableSeq(obj))
    THEN <<>>
    ELSE Access("read", TableBlock(who))
         \o (IF NextStatesPointer(obj, who, TableSeq(obj)[i]) # NullPointer
             THEN Access("free",
                         NextStatesPointer(obj, who, TableSeq(obj)[i]))
                  \o Access("write", TableBlock(who))
             ELSE <<>>)
         \o FreeNextStates(obj, who, i + 1)

DeleteGameObject(obj, who) ==
    Access("read", EntityBlock(who))
    \o (IF obj.stateConfigs # <<>>
        THEN FreeNextStates(obj, who, 1)
             \o Access("free", TableBlock(who))
             \o Access("write", EntityBlock(who))
        ELSE <<>>)
    \o Access("free", EntityBlock(who))

DeletePlayer(obj) == DeleteGameObject(obj, "player")

DeleteNPC(obj) == DeleteGameObject(obj, "npc")

DeleteMediator(m) == IF m.valid THEN Access("free", MediatorBlock) ELSE <<>>

(* free of a pointer that malloc did not return is undefined behaviour:   *)
(* abort is whether the allocator ends the process at the first such      *)
(* call; the accesses made are then those up to that call.                *)
WildFrees(log) ==
    {i \in DOMAIN log : log[i].call = "free" /\ log[i].block.kind = WILD}

Survived(log, abort) ==
    IF abort /\ WildFrees(log) # {}
    THEN SubSeq(log, 1, CHOOSE i \in WildFrees(log) :
                            \A j \in WildFrees(log) : i <= j)
    ELSE log

(* InitGame leaves no member of gameData null. *)
DeleteGameData(g, abort) ==
    [log |-> Survived(DeletePlayer(g.player) \o DeleteNPC(g.npc)
                      \o DeleteMediator(g.mediator), abort),
     crashed |-> abort /\ WildFrees(DeleteNPC(g.npc)) # {}]

(* main.cpp:54: CloseGame, called once when the loop has ended; nothing   *)
(* of the game is used after it.                                           *)
CloseGameOp(abort) ==
    LET d == DeleteGameData([player |-> player, npc |-> npc,
                             mediator |-> mediator], abort)
    IN  /\ lastCall.op # "CloseGame"
        /\ ~player.crashed
        /\ ~npc.crashed
        /\ stepsLeft' = 0
        /\ lastCall' = [op |-> "CloseGame", who |-> underTest, arg |-> NULL,
                        ret |-> IF d.crashed THEN "crash" ELSE "void",
                        from |-> Tested.currentState,
                        fromPrev |-> Tested.previousState,
                        log |-> d.log]
        /\ UNCHANGED <<player, npc, mediator, build, underTest, progress,
                       ticks, clock, lastAITime>>

NextClose ==
    \/ \E who \in Entities, event \in Events, io \in IO :
           HandleEventOp(who, event, io)
    \/ \E abort \in BOOLEAN : CloseGameOp(abort)

SpecClose == Init /\ [][NextClose]_vars

(* The positions in a deletion log of the calls of free on block. *)
FreesOf(log, block) ==
    {i \in DOMAIN log : log[i].call = "free" /\ log[i].block = block}

(* The blocks an entity owns whose pointers are not null: the arrays of   *)
(* its slots, its table, the entity itself.                                *)
OwnedArrays(who) ==
    {NextStatesPointer(Entity(who), who, s) :
         s \in DOMAIN Entity(who).stateConfigs} \ {NullPointer}

(* C32: CloseGame ends normally and has freed, for the player and then    *)
(* for the NPC, every non-null per-state array exactly once, then the     *)
(* table exactly once, then the entity exactly once, and then the         *)
(* mediator once; every pointer freed is a block malloc returned, no      *)
(* block is freed twice and no block is read, written or freed after it   *)
(* was freed.                                                              *)
C32_EachBlockFreedOnceInOrder ==
    lastCall.op = "CloseGame" =>
        LET log == lastCall.log
        IN  /\ lastCall.ret = "void"
            /\ \A i \in DOMAIN log :
                   log[i].call = "free" => log[i].block.kind # WILD
            /\ \A who \in Entities :
                   /\ \A b \in OwnedArrays(who) \cup
                               {TableBlock(who), EntityBlock(who)} :
                          Cardinality(FreesOf(log, b)) = 1
                   /\ \A b \in OwnedArrays(who) :
                          \A i \in FreesOf(log, b) :
                              \A j \in FreesOf(log, TableBlock(who)) : i < j
                   /\ \A i \in FreesOf(log, TableBlock(who)) :
                          \A j \in FreesOf(log, EntityBlock(who)) : i < j
            /\ \A i \in FreesOf(log, EntityBlock("player")) :
                   \A j \in FreesOf(log, EntityBlock("npc")) : i < j
            /\ \A i \in FreesOf(log, EntityBlock("npc")) :
                   \A j \in FreesOf(log, MediatorBlock) : i < j
            /\ Cardinality(FreesOf(log, MediatorBlock)) = 1
            /\ \A i \in DOMAIN log :
                   \A j \in FreesOf(log, log[i].block) : j >= i

(* The deletion is as C32 states it when every slot of both tables was    *)
(* written or is zero-filled.                                              *)
DeletionOfWrittenTables ==
    (build = NPC_CPP \/ npc.stateConfigs[STATE_SHIELD] = EMPTY_STATE_CONFIG)
        => C32_EachBlockFreedOnceInOrder

---------------------------------------------------------------------------
(* player.cpp, npc.cpp, npc.c : the handlers against the whitelists *)

(* No ChangeState issued by the event handler or the Update callback of   *)
(* the current state was refused.                                          *)
NoInvalidRequest ==
    lastCall.op \in {"HandleEvent", "UpdateState", "ExecuteCommand"}
        => CallsOf(Tested, "Invalid") = <<>>

(* C33: under any sequence of events and ticks, on the Player, the NPC of *)
(* npc.cpp and the NPC of npc.c, every ChangeState call a handler or an   *)
(* Update callback issues targets a state of the current state's          *)
(* whitelist: the Invalid state transition report never occurs.           *)
C33_HandlersStayInsideWhitelists == NoInvalidRequest

(* The handlers of player.cpp and npc.cpp request only listed states, in  *)
(* whatever state the entity is.                                           *)
HandlersOfCppStayInsideWhitelists ==
    (underTest = "player" \/ build = NPC_CPP) => NoInvalidRequest

---------------------------------------------------------------------------
(* fsm.c, player.cpp, npc.cpp : the current state is a configured state *)

(* The entities whose tables C34 speaks about: the Player, and the NPC of *)
(* the npc.cpp build.                                                      *)
CppEntities == {who \in Entities : who = "player" \/ build = NPC_CPP}

(* The placeholder slots of an entity's table. *)
Placeholders(who) ==
    IF who = "player"
    THEN {STATE_COLLISION}
    ELSE {STATE_WALKING, STATE_RESPAWN, STATE_COLLISION}

(* C34: the currentState of the Player and of the NPC of npc.cpp is       *)
(* always one of the states below STATE_COUNT and its slot is fully       *)
(* configured, never a placeholder: the Player is never in Collision, the *)
(* NPC never in Walking, Respawn or Collision; and no configured state    *)
(* lists a placeholder, so no ChangeState can lead to one.                *)
C34_CurrentStateIsConfigured ==
    \A who \in CppEntities :
        LET obj == Entity(who)
        IN  /\ obj.currentState \in State
            /\ obj.currentState \notin Placeholders(who)
            /\ obj.stateConfigs[obj.currentState] # EMPTY_STATE_CONFIG
            /\ FullyConfigured(obj.stateConfigs[obj.currentState])
            /\ \A s \in State :
                   obj.stateConfigs[s] = EMPTY_STATE_CONFIG
                       <=> s \in Placeholders(who)
            /\ \A s \in State \ Placeholders(who) :
                   \A i \in 1..obj.stateConfigs[s].nextStatesCount :
                       obj.stateConfigs[s].nextStates[i]
                           \in State \ Placeholders(who)

(* A direct ChangeState to a placeholder was refused and the entity is    *)
(* where it was, in a state it reached by an earlier operation.           *)
C34_Witness ==
    /\ lastCall.op = "ChangeState"
    /\ lastCall.who \in CppEntities
    /\ lastCall.arg = STATE_COLLISION
    /\ lastCall.ret = "false"
    /\ lastCall.from # STATE_IDLE
    /\ Tested.currentState = lastCall.from

---------------------------------------------------------------------------
(* player.cpp : Dead and Respawn are left by ticks only *)

(* C35: a HandleEvent on the Player in Dead or in Respawn, whatever the   *)
(* event, leaves currentState and previousState as they were and calls    *)
(* ChangeState not at all; an UpdateState in Dead leads to Respawn and an *)
(* UpdateState in Respawn leads to Idle: from Dead the Player is in Idle  *)
(* after exactly two UpdateState calls, whatever events come in between.  *)
C35_DeadAndRespawnLeftByTicksOnly ==
    lastCall.who = "player" =>
        /\ (lastCall.op = "HandleEvent"
                /\ lastCall.from \in {STATE_DEAD, STATE_RESPAWN})
               => /\ player.currentState = lastCall.from
                  /\ player.previousState = lastCall.fromPrev
                  /\ ChangeStateCalls(player) = {}
        /\ (lastCall.op = "UpdateState" /\ lastCall.from = STATE_DEAD)
               => /\ player.currentState = STATE_RESPAWN
                  /\ player.previousState = STATE_DEAD
        /\ (lastCall.op = "UpdateState" /\ lastCall.from = STATE_RESPAWN)
               => /\ player.currentState = STATE_IDLE
                  /\ player.previousState = STATE_RESPAWN

(* The second tick of a dead Player has brought it from Respawn to Idle,  *)
(* at the end of a run of MaxSteps operations.                             *)
C35_Witness ==
    /\ lastCall.op = "UpdateState"
    /\ lastCall.who = "player"
    /\ lastCall.from = STATE_RESPAWN
    /\ lastCall.fromPrev = STATE_DEAD
    /\ player.currentState = STATE_IDLE
    /\ stepsLeft = 0

---------------------------------------------------------------------------
(* mediator.cpp, game.c : the Player driven by commands and frames only *)

(* The game as InitLoop places it, with MaxSteps operations to come. *)
InitCommands ==
    \E nsrc \in Build, io \in InitIO, gap \in (MaxGap - 1)..MaxGap :
        LET game == Placed(InitGame(io, nsrc), [x |-> 0, y |-> gap])
        IN  /\ io.anim.frames = NULL
            /\ io.heap = EMPTY_STATE_CONFIG
            /\ io.rnd = MaxRoll
            /\ player = game.player
            /\ npc = game.npc
            /\ mediator = game.mediator
            /\ build = nsrc
            /\ underTest = "player"
            /\ lastCall = Called("InitGame", "player", NULL, "void",
                                 game.player)
            /\ stepsLeft = MaxSteps
            /\ progress = -1
            /\ ticks = NoTicks
            /\ clock = 0
            /\ lastAITime = 0

(* What reaches the Player in the running game: a command through the     *)
(* mediator, a tick, or a whole frame with its collision handling.        *)
NextCommands ==
    \/ \E command \in Command, io \in IO : ExecuteCommandOp(command, io)
    \/ \E io \in IO : UpdateStateOp("player", io)
    \/ \E command \in PolledInputs, ai \in {CHASE, COMMAND_NONE} :
           \E io \in GameIO : UpdateGameOp(command, ai, io)

SpecCommands == InitCommands /\ [][NextCommands]_vars

(* C36: driven by commands through the mediator, ticks and frames only,   *)
(* the Player is never in Shield and no HandleEvent it receives carries   *)
(* EVENT_DEFEND.                                                           *)
C36_NoShieldThroughCommands ==
    /\ player.currentState # STATE_SHIELD
    /\ player.previousState # STATE_SHIELD
    /\ \A i \in DOMAIN player.calls :
           player.calls[i].call = "HandleEvent"
               => player.calls[i].arg # EVENT_DEFEND

(* A command has reached the Player through the mediator after two other  *)
(* operations and has taken it from Idle to Attacking.                     *)
C36_Witness ==
    /\ lastCall.op = "ExecuteCommand"
    /\ lastCall.arg = COMMAND_ATTACK
    /\ lastCall.from = STATE_IDLE
    /\ player.currentState = STATE_ATTACKING
    /\ stepsLeft = 0

(* EVENT_DEFEND dispatched directly takes the Player from Idle to Shield. *)
ShieldByDefend ==
    /\ lastCall.op = "HandleEvent"
    /\ lastCall.who = "player"
    /\ lastCall.arg = EVENT_DEFEND
    /\ lastCall.from = STATE_IDLE
    /\ player.currentState = STATE_SHIELD

---------------------------------------------------------------------------
(* player.cpp, game.c : the events no Player handler reacts to *)

IgnoredByPlayer == {EVENT_COLLISION_START, EVENT_COLLISION_END, EVENT_RESPAWN}

(* C37: HandleEvent on the Player with EVENT_COLLISION_START,             *)
(* EVENT_COLLISION_END or EVENT_RESPAWN, in whatever state of its table   *)
(* the Player is, leaves currentState and previousState as they were and  *)
(* calls neither ChangeState nor an Entry or Exit callback.               *)
C37_CollisionEventsIgnoredByPlayer ==
    (/\ lastCall.op = "HandleEvent"
     /\ lastCall.who = "player"
     /\ lastCall.arg \in IgnoredByPlayer)
        => /\ player.currentState = lastCall.from
           /\ player.previousState = lastCall.fromPrev
           /\ \A i \in DOMAIN player.calls :
                  player.calls[i].call = "HandleEvent"

(* EVENT_COLLISION_START has been dispatched to a walking Player, which   *)
(* goes on walking.                                                        *)
C37_Witness ==
    /\ lastCall.op = "HandleEvent"
    /\ lastCall.who = "player"
    /\ lastCall.arg = EVENT_COLLISION_START
    /\ lastCall.from = STATE_WALKING
    /\ player.currentState = STATE_WALKING
    /\ ~player.crashed

(* In the collision branch of a frame, the dispatch of                    *)
(* EVENT_COLLISION_START leaves the Player in the state the log entry     *)
(* before it shows; a change of state in the branch comes with the        *)
(* EVENT_NONE that follows the separation.                                 *)
CollisionBranchChangesStateByNoneOnly ==
    lastCall.op = "UpdateGame" =>
        \A i \in 2..Len(lastCall.log) :
            /\ (lastCall.log[i].call = "HandleEvent"
                    /\ lastCall.log[i].arg = EVENT_COLLISION_START)
                   => lastCall.log[i].state = lastCall.log[i - 1].state
            /\ lastCall.log[i].call \in {"CheckCollision", "HandleCollision"}
                   => lastCall.log[i].state = lastCall.log[i - 1].state

(* A frame whose collision branch sent the walking Player to Idle. *)
CollisionBranchReachedNone ==
    /\ lastCall.op = "UpdateGame"
    /\ \E i \in 2..Len(lastCall.log) :
           /\ lastCall.log[i].call = "HandleEvent"
           /\ lastCall.log[i].who = "player"
           /\ lastCall.log[i].arg = EVENT_NONE
           /\ lastCall.log[i - 1].call = "CheckCollision"
           /\ lastCall.log[i - 1].state = STATE_WALKING
           /\ lastCall.log[i].state = STATE_IDLE

---------------------------------------------------------------------------
(* fsm.c, player.cpp : previousState of the Player *)

(* C38: the Player's previousState equals its currentState in Idle only.  *)
(* An accepted ChangeState leaves previousState = the state left, which   *)
(* differs from the state entered; a HandleEvent in Idle with EVENT_NONE  *)
(* sets previousState to Idle whatever it was; no other call writes       *)
(* previousState.                                                          *)
C38_PreviousEqualsCurrentInIdleOnly ==
    /\ player.previousState = player.currentState
           => player.currentState = STATE_IDLE
    /\ lastCall.who = "player" =>
           /\ (lastCall.op = "ChangeState" /\ lastCall.ret = "true")
                  => /\ player.previousState = lastCall.from
                     /\ player.currentState = lastCall.arg
                     /\ player.previousState # player.currentState
           /\ (/\ lastCall.op = "HandleEvent"
               /\ lastCall.arg = EVENT_NONE
               /\ lastCall.from = STATE_IDLE)
                  => /\ player.currentState = STATE_IDLE
                     /\ player.previousState = STATE_IDLE
           /\ (/\ lastCall.op \in {"HandleEvent", "UpdateState", "ChangeState"}
               /\ ChangeStateCalls(player) = {}
               /\ ~(lastCall.arg = EVENT_NONE /\ lastCall.from = STATE_IDLE))
                  => player.previousState = lastCall.fromPrev

(* The Idle handler's reaction to EVENT_NONE has overwritten the Walking  *)
(* value a return to Idle had left in previousState.                      *)
C38_Witness ==
    /\ lastCall.op = "HandleEvent"
    /\ lastCall.who = "player"
    /\ lastCall.arg = EVENT_NONE
    /\ lastCall.from = STATE_IDLE
    /\ lastCall.fromPrev = STATE_WALKING
    /\ player.previousState = STATE_IDLE
    /\ player.currentState = STATE_IDLE

---------------------------------------------------------------------------
(* animation.c : the frame index, call by call *)

(* Animations of 1 to MaxCount frames, with the frame durations of Clips. *)
ShortClips ==
    {[frames |-> "idle", frameCount |-> n, speed |-> c.speed] :
         n \in 1..MaxCount, c \in Clips}

(* One UpdateAnimation call on the animation of the entity under test,    *)
(* GetFrameTime returning ft.                                              *)
UpdateAnimationCallOp(ft) ==
    LET before == Tested.animation
        after == UpdateAnimation(before, ft)
    IN  /\ Put(underTest, [Tested EXCEPT !.animation = after])
        /\ lastCall' = [op |-> "UpdateAnimation", who |-> underTest,
                        arg |-> ft, ret |-> "void", prev |-> before]
        /\ UNCHANGED <<mediator, build, underTest, stepsLeft, progress,
                       ticks, clock, lastAITime>>

(* The entities as InitGameObject leaves them when no Entry callback has  *)
(* selected an animation: the animation member is as it was allocated.    *)
InitFrames ==
    \E nsrc \in Build, who \in Entities, io \in InitIO :
        LET game == ConstructGame(io, nsrc, who, STATE_ATTACKING)
        IN  /\ io.heap = EMPTY_STATE_CONFIG
            /\ io.rnd = MaxRoll
            /\ player = game.player
            /\ npc = game.npc
            /\ mediator = game.mediator
            /\ build = nsrc
            /\ underTest = who
            /\ lastCall = [op |-> "InitGameObject", who |-> who, arg |-> NULL,
                           ret |-> "void", prev |-> io.anim]
            /\ stepsLeft = 0
            /\ progress = -1
            /\ ticks = NoTicks
            /\ clock = 0
            /\ lastAITime = 0

NextFrames ==
    \/ \E ft \in 0..MaxTick : UpdateAnimationCallOp(ft)
    \/ \E clip \in ShortClips, loop \in BOOLEAN : InitAnimationOp(clip, loop)

SpecFrames == InitFrames /\ [][NextFrames]_vars

(* An animation InitAnimation has filled in. *)
Initialised(animationData) == animationData.frames \notin {NULL, WILD}

(* C39: an animation of frameCount >= 1 has, after InitAnimation and any  *)
(* UpdateAnimation calls with frame times >= 0, its currentFrame within   *)
(* 0 .. frameCount - 1; one UpdateAnimation call leaves the index or      *)
(* moves it to the next frame (from the last frame: to frame 0 when the   *)
(* animation loops, nowhere when it does not), and changes no member but  *)
(* currentFrame and frameTimer; on an inactive animation it changes       *)
(* nothing.                                                                *)
C39_FrameIndexInRange ==
    /\ Initialised(Tested.animation)
           => /\ Tested.animation.frameCount >= 1
              /\ Tested.animation.currentFrame
                     \in 0..(Tested.animation.frameCount - 1)
    /\ lastCall.op = "UpdateAnimation" =>
           LET before == lastCall.prev
               after == Tested.animation
               last == before.frameCount - 1
           IN  /\ ~before.active => after = before
               /\ Initialised(before) =>
                      /\ after.currentFrame \in
                             {before.currentFrame,
                              IF before.currentFrame < last
                              THEN before.currentFrame + 1
                              ELSE IF before.loop THEN 0 ELSE last}
                      /\ [after EXCEPT !.currentFrame = 0, !.frameTimer = 0]
                             = [before EXCEPT !.currentFrame = 0,
                                              !.frameTimer = 0]

(* A call on an animation of several frames that does not loop and is on  *)
(* its last frame, the frame time being long enough for an advance: the   *)
(* index has stayed.                                                       *)
C39_Witness ==
    /\ lastCall.op = "UpdateAnimation"
    /\ Initialised(lastCall.prev)
    /\ ~lastCall.prev.loop
    /\ lastCall.prev.frameCount = MaxCount
    /\ lastCall.prev.currentFrame = MaxCount - 1
    /\ lastCall.prev.frameTimer + lastCall.arg >= lastCall.prev.frameDuration
    /\ Tested.animation.currentFrame = MaxCount - 1
    /\ Tested.animation.frameTimer = 0

(* A call on the inactive, zero-filled animation of a constructed entity. *)
InactiveTicked ==
    /\ lastCall.op = "UpdateAnimation"
    /\ ~lastCall.prev.active
    /\ lastCall.arg > 0
    /\ Tested.animation = lastCall.prev

---------------------------------------------------------------------------
(* fsm.c, game.c, gameobject.cpp : what an operation on one entity writes *)

(* The gaps between the player and the NPC at the start: touching within  *)
(* the collision buffer, or just out of reach.                             *)
NearGaps == {MaxGap - 3, MaxGap}

InitEntities ==
    \E nsrc \in Build, who \in Entities, io \in InitIO, gap \in NearGaps :
        LET game == Placed(InitGame(io, nsrc), [x |-> 0, y |-> gap])
        IN  /\ io.anim.frames = NULL
            /\ io.heap = EMPTY_STATE_CONFIG
            /\ player = game.player
            /\ npc = game.npc
            /\ mediator = game.mediator
            /\ build = nsrc
            /\ underTest = who
            /\ lastCall = Called("InitGame", who, NULL, "void", game[who])
            /\ stepsLeft = MaxSteps
            /\ progress = -1
            /\ ticks = NoTicks
            /\ clock = 0
            /\ lastAITime = 0

(* The operations of fsm.c on either entity, and HandleCollision on both. *)
NextEntities ==
    \/ \E who \in Entities, event \in Events, io \in IO :
           HandleEventOp(who, event, io)
    \/ \E who \in Entities, io \in IO : UpdateStateOp(who, io)
    \/ \E who \in Entities, newState \in State \cup MovingState, io \in IO :
           ChangeStateOp(who, newState, io)
    \/ HandleCollisionOp

SpecEntities == InitEntities /\ [][NextEntities]_vars

(* The step has written a member of the entity. *)
WrittenPlayer == Fresh(player') # Fresh(player)

WrittenNPC == Fresh(npc') # Fresh(npc)

BothWritten ==
    /\ lastCall.op = "HandleCollision"
    /\ player.health = 95
    /\ npc.color = "RED"

====
